---- MODULE Spec2Model ----
(***************************************************************************)
(* Model of the RUNE spec tooling: the tolerant parser (tools/parser.py)   *)
(* and the quality validator (tools/validate.py).                          *)
(*                                                                         *)
(* Python strings are sequences of one-character strings, so strip(),      *)
(* substring tests, the identifier pattern and str() are computed and not  *)
(* assumed.  A decoded YAML value is a record tagged with its Python type. *)
(***************************************************************************)
EXTENDS Integers, Sequences, FiniteSets, TLC

VARIABLES
    hashSeed,   \* the per-process string hash seed: fixes set iteration order
    text,       \* the input text handed to the entry points
    prevCall,   \* the validate_spec call before the last one: [strict, out]
    lastCall,   \* the last validate_spec call: [strict, out]
    parsed,     \* outcome of RUNEParser.parse_string(text)
    verrs,      \* outcome of RUNEParser.validate(parsed spec)
    file,       \* the path handed to validate_file: [exists, suffix]
    fileCall,   \* the last validate_file call: [strict, out]
    given,      \* the value handed to _to_str_list
    coerced,    \* outcome of _to_str_list(given)
    prevCoerced, \* the outcome whose list was handed to _to_str_list again
    dumped,     \* outcome of RUNESpec.to_dict() on the parsed spec
    tree,       \* the entries under the directory handed to validate_directory
    dirCall,    \* the last validate_directory call: [strict, out]
    target,     \* what the path of the command line names: file, dir or nothing
    cliCall,    \* the last run of the command line: [strict, json_output, out]
    defaultParser, \* the attributes of _default_parser, the process-wide RUNEParser
    calls       \* per caller: its position, its invocation and the outcome

coerceVars == <<given, coerced, prevCoerced>>
dirVars == <<tree, dirCall, target, cliCall>>
callVars == <<defaultParser, calls>>

vars == <<hashSeed, text, prevCall, lastCall, parsed, verrs, file, fileCall,
          coerceVars, dumped, dirVars, callVars>>

(***************************************************************************)
(* Bounds of the model.                                                    *)
(***************************************************************************)
MaxSeed == 1        \* hash seeds 0..MaxSeed
MaxTests == 4       \* TESTS lists of 0..MaxTests entries
MaxItems == 2       \* coerced lists of 0..MaxItems elements
MaxFiles == 3       \* directories of 0..MaxFiles files named *.rune
MaxCallers == 2     \* callers 1..MaxCallers, each making one call

Seeds == 0..MaxSeed

(***************************************************************************)
(* Python string primitives.                                               *)
(***************************************************************************)
Whitespace == {" ", "\n"}

Lower == {"a", "b", "c", "d", "e", "f", "g", "h", "i", "j", "k", "l", "m",
          "n", "o", "p", "q", "r", "s", "t", "u", "v", "w", "x", "y", "z"}

Upper == {"A", "B", "C", "D", "E", "F", "G", "H", "I", "J", "K", "L", "M",
          "N", "O", "P", "Q", "R", "S", "T", "U", "V", "W", "X", "Y", "Z"}

Digit == {"0", "1", "2", "3", "4", "5", "6", "7", "8", "9"}

\* str.lower() on one character
LowerChar(c) ==
    CASE c = "A" -> "a" [] c = "B" -> "b" [] c = "C" -> "c"
      [] c = "D" -> "d" [] c = "E" -> "e" [] c = "F" -> "f"
      [] c = "G" -> "g" [] c = "H" -> "h" [] c = "I" -> "i"
      [] c = "J" -> "j" [] c = "K" -> "k" [] c = "L" -> "l"
      [] c = "M" -> "m" [] c = "N" -> "n" [] c = "O" -> "o"
      [] c = "P" -> "p" [] c = "Q" -> "q" [] c = "R" -> "r"
      [] c = "S" -> "s" [] c = "T" -> "t" [] c = "U" -> "u"
      [] c = "V" -> "v" [] c = "W" -> "w" [] c = "X" -> "x"
      [] c = "Y" -> "y" [] c = "Z" -> "z"
      [] OTHER -> c

\* str.lower()
ToLower(s) == [i \in 1..Len(s) |-> LowerChar(s[i])]

RECURSIVE LStrip(_)
LStrip(s) == IF s # <<>> /\ Head(s) \in Whitespace THEN LStrip(Tail(s)) ELSE s

RECURSIVE RStrip(_)
RStrip(s) ==
    IF s # <<>> /\ s[Len(s)] \in Whitespace
    THEN RStrip(SubSeq(s, 1, Len(s) - 1)) ELSE s

\* str.strip()
Strip(s) == RStrip(LStrip(s))

\* sub in s
Contains(s, sub) ==
    \E i \in 0..(Len(s) - Len(sub)) : SubSeq(s, i + 1, i + Len(sub)) = sub

RECURSIVE Join(_, _)
\* sep.join(parts)
Join(parts, sep) ==
    IF parts = <<>> THEN <<>>
    ELSE IF Len(parts) = 1 THEN parts[1]
    ELSE parts[1] \o sep \o Join(Tail(parts), sep)

RECURSIVE Split(_, _)
\* s.split(c) for a one-character separator
Split(s, c) ==
    IF \A i \in 1..Len(s) : s[i] # c THEN <<s>>
    ELSE LET k == CHOOSE i \in 1..Len(s) :
                      s[i] = c /\ \A j \in 1..(i - 1) : s[j] # c
         IN  <<SubSeq(s, 1, k - 1)>> \o Split(SubSeq(s, k + 1, Len(s)), c)

RECURSIVE DigitsOf(_)
\* str(n) for a natural number n
DigitsOf(n) ==
    LET d == <<"0", "1", "2", "3", "4", "5", "6", "7", "8", "9">>[(n % 10) + 1]
    IN  IF n < 10 THEN <<d>> ELSE DigitsOf(n \div 10) \o <<d>>

\* the body of IDENTIFIER_RE without the anchors
IsIdentifier(s) ==
    /\ s # <<>>
    /\ s[1] \in Lower \cup Upper \cup {"_"}
    /\ \A i \in 2..Len(s) : s[i] \in Lower \cup Upper \cup Digit \cup {"_"}

\* IDENTIFIER_RE.match(s) is not None; the end anchor also matches before a final newline
IDENTIFIER_RE(s) ==
    \/ IsIdentifier(s)
    \/ s # <<>> /\ s[Len(s)] = "\n" /\ IsIdentifier(SubSeq(s, 1, Len(s) - 1))

(***************************************************************************)
(* Decoded values (what yaml.safe_load returns).                           *)
(***************************************************************************)
Value(t, s, n, xs, kvs) == [t |-> t, s |-> s, n |-> n, xs |-> xs, kvs |-> kvs]
VNone == Value("NoneType", <<>>, 0, <<>>, <<>>)
VStr(s) == Value("str", s, 0, <<>>, <<>>)
VInt(n) == Value("int", <<>>, n, <<>>, <<>>)
VBool(b) == Value("bool", <<>>, IF b THEN 1 ELSE 0, <<>>, <<>>)
VList(xs) == Value("list", <<>>, 0, xs, <<>>)
VDict(kvs) == Value("dict", <<>>, 0, <<>>, kvs)     \* kvs: sequence of <<key, value>>

\* a list of strings as a decoded value
StrList(strs) == VList([i \in 1..Len(strs) |-> VStr(strs[i])])

\* the characters of a mapping key
KeyChars(k) ==
    CASE k = "meta" -> <<"m", "e", "t", "a">>
      [] k = "RUNE" -> <<"R", "U", "N", "E">>
      [] k = "SIGNATURE" -> <<"S", "I", "G", "N", "A", "T", "U", "R", "E">>
      [] k = "INTENT" -> <<"I", "N", "T", "E", "N", "T">>
      [] k = "BEHAVIOR" -> <<"B", "E", "H", "A", "V", "I", "O", "R">>
      [] k = "TESTS" -> <<"T", "E", "S", "T", "S">>
      [] k = "CONSTRAINTS" -> <<"C", "O", "N", "S", "T", "R", "A", "I", "N", "T", "S">>
      [] k = "EDGE_CASES" -> <<"E", "D", "G", "E", "_", "C", "A", "S", "E", "S">>
      [] k = "DEPENDENCIES" -> <<"D", "E", "P", "E", "N", "D", "E", "N", "C", "I", "E", "S">>
      [] k = "EXAMPLES" -> <<"E", "X", "A", "M", "P", "L", "E", "S">>
      [] k = "COMPLEXITY" -> <<"C", "O", "M", "P", "L", "E", "X", "I", "T", "Y">>
      [] k = "name" -> <<"n", "a", "m", "e">>
      [] k = "language" -> <<"l", "a", "n", "g", "u", "a", "g", "e">>
      [] k = "version" -> <<"v", "e", "r", "s", "i", "o", "n">>
      [] k = "tags" -> <<"t", "a", "g", "s">>
      [] k = "agent" -> <<"a", "g", "e", "n", "t">>
      [] k = "mcp_server" -> <<"m", "c", "p", "_", "s", "e", "r", "v", "e", "r">>
      [] k = "author" -> <<"a", "u", "t", "h", "o", "r">>
      [] k = "time" -> <<"t", "i", "m", "e">>
      [] k = "space" -> <<"s", "p", "a", "c", "e">>

\* isinstance(x, T)
IsInstance(x, T) == x.t = T

\* bool(x)
Truthy(x) ==
    CASE x.t = "NoneType" -> FALSE
      [] x.t = "str" -> x.s # <<>>
      [] x.t = "int" -> x.n # 0
      [] x.t = "bool" -> x.n # 0
      [] x.t = "list" -> x.xs # <<>>
      [] x.t = "dict" -> x.kvs # <<>>

RECURSIVE Repr(_)
\* repr(x); strings of the model hold no quote and no backslash
Repr(x) ==
    CASE x.t = "NoneType" -> <<"N", "o", "n", "e">>
      [] x.t = "str" -> <<"'">> \o x.s \o <<"'">>
      [] x.t = "int" -> DigitsOf(x.n)
      [] x.t = "bool" -> IF x.n # 0 THEN <<"T", "r", "u", "e">> ELSE <<"F", "a", "l", "s", "e">>
      [] x.t = "list" ->
            <<"[">> \o Join([i \in 1..Len(x.xs) |-> Repr(x.xs[i])], <<",", " ">>) \o <<"]">>
      [] x.t = "dict" ->
            <<"{">> \o Join([i \in 1..Len(x.kvs) |->
                        <<"'">> \o KeyChars(x.kvs[i][1]) \o <<"'", ":", " ">> \o Repr(x.kvs[i][2])],
                        <<",", " ">>) \o <<"}">>

\* str(x)
PyStr(x) == IF x.t = "str" THEN x.s ELSE Repr(x)

\* hash(x) raises TypeError for lists and dicts
Unhashable(x) == x.t \in {"list", "dict"}

\* k in d
HasKey(d, k) == \E i \in 1..Len(d.kvs) : d.kvs[i][1] = k

\* d[k]
Item(d, k) == d.kvs[CHOOSE i \in 1..Len(d.kvs) : d.kvs[i][1] = k][2]

\* d.get(k, default)
Get(d, k, default) == IF HasKey(d, k) THEN Item(d, k) ELSE default

\* list(d.keys())
Keys(d) == [i \in 1..Len(d.kvs) |-> d.kvs[i][1]]

\* type(x).__name__
TypeName(x) ==
    CASE x.t = "NoneType" -> <<"N", "o", "n", "e", "T", "y", "p", "e">>
      [] x.t = "str" -> <<"s", "t", "r">>
      [] x.t = "int" -> <<"i", "n", "t">>
      [] x.t = "bool" -> <<"b", "o", "o", "l">>
      [] x.t = "list" -> <<"l", "i", "s", "t">>
      [] x.t = "dict" -> <<"d", "i", "c", "t">>

(***************************************************************************)
(* Outcomes of a call: a returned value or a raised exception; a message   *)
(* is its format string m with the formatted argument a.                   *)
(***************************************************************************)
Msg(m, a) == [m |-> m, a |-> a]
Return(r) == [exc |-> "", ret |-> r]
Raise(e, msg) == [exc |-> e, ret |-> msg]
NoCall == [exc |-> "-", ret |-> <<>>]

(***************************************************************************)
(* Input texts.  A text is either given by its characters (the blank and   *)
(* the malformed ones) or is the YAML document that dumps a value.         *)
(***************************************************************************)
RawText(chars) == [form |-> "chars", chars |-> chars, doc |-> VNone]
DumpText(val) == [form |-> "dump", chars |-> <<>>, doc |-> val]

\* a flow mapping that is never closed
BrokenYaml == <<"{", "a", ":", " ", "[">>

\* the message of the decoder for BrokenYaml
ScannerMessage == <<"w", "h", "i", "l", "e", " ", "p", "a", "r", "s", "i", "n", "g", " ", "a", " ", "f", "l", "o", "w", " ", "n", "o", "d", "e">>

\* not content
IsEmptyText(content) == content.form = "chars" /\ content.chars = <<>>

\* not content.strip(); the dump of a value always holds a visible character
IsBlankText(content) == content.form = "chars" /\ Strip(content.chars) = <<>>

\* yaml.safe_load(content): a blank stream holds no document and loads as None
safe_load(content) ==
    CASE content.form = "dump" -> Return(content.doc)
      [] content.form = "chars" /\ Strip(content.chars) = <<>> -> Return(VNone)
      [] content.form = "chars" /\ content.chars = BrokenYaml ->
            Raise("YAMLError", ScannerMessage)

(***************************************************************************)
(* tools/validate.py                                                       *)
(***************************************************************************)
\* the sets of field names, in the order the source writes them
REQUIRED_FIELDS == <<"meta", "RUNE", "SIGNATURE", "INTENT", "BEHAVIOR", "TESTS">>
REQUIRED_META_FIELDS == <<"name", "language">>
OPTIONAL_FIELDS ==
    <<"CONSTRAINTS", "EDGE_CASES", "DEPENDENCIES", "EXAMPLES", "COMPLEXITY">>
LIST_FIELDS ==
    {"BEHAVIOR", "TESTS", "CONSTRAINTS", "EDGE_CASES", "DEPENDENCIES", "EXAMPLES"}
SUPPORTED_LANGUAGES ==
    {<<"p", "y", "t", "h", "o", "n">>, <<"t", "y", "p", "e", "s", "c", "r", "i", "p", "t">>, <<"j", "a", "v", "a", "s", "c", "r", "i", "p", "t">>, <<"g", "o">>, <<"r", "u", "s", "t">>, <<"j", "a", "v", "a">>,
     <<"c", "s", "h", "a", "r", "p">>, <<"c", "p", "p">>, <<"c">>, <<"r", "u", "b", "y">>, <<"p", "h", "p">>, <<"s", "w", "i", "f", "t">>, <<"k", "o", "t", "l", "i", "n">>}

Reverse(s) == [i \in 1..Len(s) |-> s[Len(s) + 1 - i]]

\* The order in which a process iterates a set of strings.  It is fixed by
\* the hash seed of the process and by nothing else; seed 0 stands for the
\* order of the source text, the other seeds for rotations and reversals.
IterOrder(lit, seed) ==
    LET n == Len(lit)
        rot == [i \in 1..n |-> lit[((i - 1 + (seed \div 2)) % n) + 1]]
    IN  IF seed % 2 = 1 THEN Reverse(rot) ELSE rot

\* RequiredEntry that never writes the count
RequiredEntry_NoCount(data, field) ==
    IF HasKey(data, field) THEN [present |-> TRUE] ELSE [present |-> FALSE]

\* the field_summary entry written by the loop over REQUIRED_FIELDS
RequiredEntry(data, field) ==
    IF HasKey(data, field)
    THEN IF field \in LIST_FIELDS /\ IsInstance(Item(data, field), "list")
         THEN [present |-> TRUE, count |-> Len(Item(data, field).xs)]
         ELSE [present |-> TRUE]
    ELSE [present |-> FALSE]

\* the field_summary entry written by the loop over OPTIONAL_FIELDS
OptionalEntry(data, field) ==
    IF HasKey(data, field)
    THEN IF field \in LIST_FIELDS /\ IsInstance(Item(data, field), "list")
         THEN [present |-> TRUE, count |-> Len(Item(data, field).xs)]
         ELSE IF field = "COMPLEXITY" /\ IsInstance(Item(data, field), "dict")
         THEN [present |-> TRUE, keys |-> Keys(Item(data, field))]
         ELSE [present |-> TRUE]
    ELSE [present |-> FALSE]

\* the lists of a report while validate_spec fills them
EmptyLists ==
    [exc |-> "", errors |-> <<>>, warnings |-> <<>>, suggestions |-> <<>>,
     field_summary |-> <<>>]

\* the report returned when the decoder raises YAMLError
DecodeErrorReport(exc) ==
    [valid |-> FALSE,
     errors |-> <<Msg("Invalid YAML: {exc}", exc)>>,
     warnings |-> <<>>,
     suggestions |-> <<Msg("Fix the YAML syntax errors and re-validate", <<>>)>>,
     field_summary |-> <<>>]

\* RootShapeReport with the message filed under warnings
RootShapeReport_AsWarning(data) ==
    [valid |-> FALSE,
     errors |-> <<>>,
     warnings |-> <<Msg("Spec must be a YAML mapping (dict), got {type}", TypeName(data))>>,
     suggestions |-> <<Msg("Ensure the file starts with --- and contains key: value pairs", <<>>)>>,
     field_summary |-> <<>>]

\* the report returned when the decoded root is not a mapping
RootShapeReport(data) ==
    [valid |-> FALSE,
     errors |-> <<Msg("Spec must be a YAML mapping (dict), got {type}", TypeName(data))>>,
     warnings |-> <<>>,
     suggestions |-> <<Msg("Ensure the file starts with --- and contains key: value pairs", <<>>)>>,
     field_summary |-> <<>>]

\* "Required fields": the loop over REQUIRED_FIELDS
RequiredFields(acc, data, seed) ==
    LET order == IterOrder(REQUIRED_FIELDS, seed)
        Absent(f) == ~HasKey(data, f)
        Missing(f) == Msg("Missing required field: {field}", KeyChars(f))
        absent == SelectSeq(order, Absent)
        missing == [i \in 1..Len(absent) |-> Missing(absent[i])]
    IN  [acc EXCEPT
            !.errors = @ \o missing,
            !.field_summary = @ \o [i \in 1..Len(order) |->
                                       <<order[i], RequiredEntry(data, order[i])>>]]

\* "meta section": the membership test raises TypeError on an unhashable
\* language, the pattern match raises TypeError on a name that is not a string
MetaSection(acc, data, seed) ==
    LET meta == Get(data, "meta", VNone)
        order == IterOrder(REQUIRED_META_FIELDS, seed)
        Absent(mf) == ~HasKey(meta, mf)
        Missing(mf) == Msg("Missing required meta field: meta.{mf}", KeyChars(mf))
        absent == SelectSeq(order, Absent)
        missing == [i \in 1..Len(absent) |-> Missing(absent[i])]
        lang == Get(meta, "language", VStr(<<>>))
        name == Get(meta, "name", VStr(<<>>))
    IN  IF IsInstance(meta, "dict")
        THEN IF Truthy(lang) /\ Unhashable(lang)
             THEN [acc EXCEPT !.exc = "TypeError"]
             ELSE IF Truthy(name) /\ ~IsInstance(name, "str")
             THEN [acc EXCEPT !.exc = "TypeError"]
             ELSE [acc EXCEPT
                     !.errors = @ \o missing,
                     !.warnings = @
                        \o (IF Truthy(lang)
                               /\ ~(IsInstance(lang, "str")
                                    /\ lang.s \in SUPPORTED_LANGUAGES)
                            THEN <<Msg("Unrecognized language '{lang}' (supported: {sorted})",
                                       PyStr(lang))>>
                            ELSE <<>>)
                        \o (IF Truthy(name) /\ ~IDENTIFIER_RE(name.s)
                            THEN <<Msg("meta.name '{name}' is not a valid identifier",
                                       name.s)>>
                            ELSE <<>>)]
        ELSE IF meta.t # "NoneType"
        THEN [acc EXCEPT !.errors = @ \o <<Msg("meta must be a mapping (dict)", <<>>)>>]
        ELSE acc

\* "RUNE field"
RuneField(acc, data) ==
    LET rune_name == Get(data, "RUNE", VStr(<<>>))
    IN  IF Truthy(rune_name) /\ ~IDENTIFIER_RE(PyStr(rune_name))
        THEN [acc EXCEPT !.warnings = @ \o
                 <<Msg("RUNE value '{rune_name}' is not a valid identifier",
                       PyStr(rune_name))>>]
        ELSE acc

SignatureKeywords ==
    <<<<"d", "e", "f", " ">>, <<"f", "u", "n", "c", " ">>, <<"f", "u", "n", "c", "t", "i", "o", "n", " ">>, <<"c", "l", "a", "s", "s", " ">>, <<"f", "n", " ">>, <<"p", "u", "b", " ">>, <<"a", "s", "y", "n", "c", " ">>>>

\* SignatureField that looks for the keywords without lowering the signature
SignatureField_CaseSensitive(acc, data) ==
    LET sig == Get(data, "SIGNATURE", VStr(<<>>))
    IN  IF IsInstance(sig, "str") /\ Strip(sig.s) # <<>>
        THEN LET has_keyword == \E i \in 1..Len(SignatureKeywords) :
                                    Contains(Strip(sig.s), SignatureKeywords[i])
             IN  IF ~has_keyword
                 THEN [acc EXCEPT !.warnings = @ \o
                          <<Msg("SIGNATURE may not use target language syntax (no function/class keyword found)", <<>>)>>]
                 ELSE acc
        ELSE IF HasKey(data, "SIGNATURE")
        THEN [acc EXCEPT !.errors = @ \o
                 <<Msg("SIGNATURE must be a non-empty string", <<>>)>>]
        ELSE acc

\* "SIGNATURE"
SignatureField(acc, data) ==
    LET sig == Get(data, "SIGNATURE", VStr(<<>>))
    IN  IF IsInstance(sig, "str") /\ Strip(sig.s) # <<>>
        THEN LET sig_lower == ToLower(Strip(sig.s))
                 has_keyword == \E i \in 1..Len(SignatureKeywords) :
                                    Contains(sig_lower, SignatureKeywords[i])
             IN  IF ~has_keyword
                 THEN [acc EXCEPT !.warnings = @ \o
                          <<Msg("SIGNATURE may not use target language syntax (no function/class keyword found)", <<>>)>>]
                 ELSE acc
        ELSE IF HasKey(data, "SIGNATURE")
        THEN [acc EXCEPT !.errors = @ \o
                 <<Msg("SIGNATURE must be a non-empty string", <<>>)>>]
        ELSE acc

\* "INTENT"
IntentField(acc, data) ==
    LET intent == Get(data, "INTENT", VStr(<<>>))
    IN  IF IsInstance(intent, "str") /\ Strip(intent.s) # <<>>
        THEN LET NonBlank(s) == Strip(s) # <<>>
                 sentences == SelectSeq(Split(Strip(intent.s), "."), NonBlank)
             IN  IF Len(sentences) > 5
                 THEN [acc EXCEPT !.warnings = @ \o
                          <<Msg("INTENT has {len(sentences)} sentences (recommended: 1-3)",
                                DigitsOf(Len(sentences)))>>]
                 ELSE acc
        ELSE IF HasKey(data, "INTENT")
        THEN [acc EXCEPT !.errors = @ \o
                 <<Msg("INTENT must be a non-empty string", <<>>)>>]
        ELSE acc

\* BehaviorField that lets an empty list pass
BehaviorField_EmptyAllowed(acc, data) ==
    LET behavior == Get(data, "BEHAVIOR", VList(<<>>))
    IN  IF IsInstance(behavior, "list")
        THEN LET has_when_then ==
                     \E i \in 1..Len(behavior.xs) :
                         /\ Contains(PyStr(behavior.xs[i]), <<"W", "H", "E", "N">>)
                         /\ Contains(PyStr(behavior.xs[i]), <<"T", "H", "E", "N">>)
             IN  [acc EXCEPT
                     !.suggestions = @ \o
                        (IF ~has_when_then /\ Len(behavior.xs) > 0
                         THEN <<Msg("Consider using WHEN/THEN format in BEHAVIOR for clarity", <<>>)>>
                         ELSE <<>>)]
        ELSE IF HasKey(data, "BEHAVIOR")
        THEN [acc EXCEPT !.errors = @ \o <<Msg("BEHAVIOR must be a list", <<>>)>>]
        ELSE acc

\* "BEHAVIOR"
BehaviorField(acc, data) ==
    LET behavior == Get(data, "BEHAVIOR", VList(<<>>))
    IN  IF IsInstance(behavior, "list")
        THEN LET has_when_then ==
                     \E i \in 1..Len(behavior.xs) :
                         /\ Contains(PyStr(behavior.xs[i]), <<"W", "H", "E", "N">>)
                         /\ Contains(PyStr(behavior.xs[i]), <<"T", "H", "E", "N">>)
             IN  [acc EXCEPT
                     !.errors = @ \o
                        (IF Len(behavior.xs) = 0
                         THEN <<Msg("BEHAVIOR must have at least one entry", <<>>)>>
                         ELSE <<>>),
                     !.suggestions = @ \o
                        (IF ~has_when_then /\ Len(behavior.xs) > 0
                         THEN <<Msg("Consider using WHEN/THEN format in BEHAVIOR for clarity", <<>>)>>
                         ELSE <<>>)]
        ELSE IF HasKey(data, "BEHAVIOR")
        THEN [acc EXCEPT !.errors = @ \o <<Msg("BEHAVIOR must be a list", <<>>)>>]
        ELSE acc

\* TestsField that still warns of a list of three entries
TestsField_ThreeWarns(acc, data) ==
    LET tests == Get(data, "TESTS", VList(<<>>))
    IN  IF IsInstance(tests, "list")
        THEN IF Len(tests.xs) = 0
             THEN [acc EXCEPT !.errors = @ \o
                      <<Msg("TESTS must have at least one test case", <<>>)>>]
             ELSE IF Len(tests.xs) <= 3
             THEN [acc EXCEPT
                      !.warnings = @ \o
                         <<Msg("TESTS has {len(tests)} cases (recommended minimum: 3)",
                               DigitsOf(Len(tests.xs)))>>,
                      !.suggestions = @ \o
                         <<Msg("Add test cases for: happy path, boundary conditions, and error cases", <<>>)>>]
             ELSE acc
        ELSE IF HasKey(data, "TESTS")
        THEN [acc EXCEPT !.errors = @ \o <<Msg("TESTS must be a list", <<>>)>>]
        ELSE acc

\* "TESTS"
TestsField(acc, data) ==
    LET tests == Get(data, "TESTS", VList(<<>>))
    IN  IF IsInstance(tests, "list")
        THEN IF Len(tests.xs) = 0
             THEN [acc EXCEPT !.errors = @ \o
                      <<Msg("TESTS must have at least one test case", <<>>)>>]
             ELSE IF Len(tests.xs) < 3
             THEN [acc EXCEPT
                      !.warnings = @ \o
                         <<Msg("TESTS has {len(tests)} cases (recommended minimum: 3)",
                               DigitsOf(Len(tests.xs)))>>,
                      !.suggestions = @ \o
                         <<Msg("Add test cases for: happy path, boundary conditions, and error cases", <<>>)>>]
             ELSE acc
        ELSE IF HasKey(data, "TESTS")
        THEN [acc EXCEPT !.errors = @ \o <<Msg("TESTS must be a list", <<>>)>>]
        ELSE acc

\* OptionalFields with the strict warnings assigned instead of appended
OptionalFields_Rebinds(acc, data, strict, seed) ==
    LET order == IterOrder(OPTIONAL_FIELDS, seed)
        Absent(f) == ~HasKey(data, f)
        Missing(f) == Msg("Missing optional field: {field} (required in strict mode)",
                          KeyChars(f))
        absent == SelectSeq(order, Absent)
        missing == [i \in 1..Len(absent) |-> Missing(absent[i])]
    IN  [acc EXCEPT
            !.field_summary = @ \o [i \in 1..Len(order) |->
                                       <<order[i], OptionalEntry(data, order[i])>>],
            !.warnings = IF strict THEN missing ELSE @]

\* OptionalFields that files the absent fields of strict mode under errors
OptionalFields_StrictErrors(acc, data, strict, seed) ==
    LET order == IterOrder(OPTIONAL_FIELDS, seed)
        Absent(f) == ~HasKey(data, f)
        Missing(f) == Msg("Missing optional field: {field} (required in strict mode)",
                          KeyChars(f))
        absent == SelectSeq(order, Absent)
        missing == [i \in 1..Len(absent) |-> Missing(absent[i])]
    IN  [acc EXCEPT
            !.field_summary = @ \o [i \in 1..Len(order) |->
                                       <<order[i], OptionalEntry(data, order[i])>>],
            !.errors = @ \o (IF strict THEN missing
                             ELSE <<>>)]

\* "Optional fields (strict mode)": the loop over OPTIONAL_FIELDS
OptionalFields(acc, data, strict, seed) ==
    LET order == IterOrder(OPTIONAL_FIELDS, seed)
        Absent(f) == ~HasKey(data, f)
        Missing(f) == Msg("Missing optional field: {field} (required in strict mode)",
                          KeyChars(f))
        absent == SelectSeq(order, Absent)
        missing == [i \in 1..Len(absent) |-> Missing(absent[i])]
    IN  [acc EXCEPT
            !.field_summary = @ \o [i \in 1..Len(order) |->
                                       <<order[i], OptionalEntry(data, order[i])>>],
            !.warnings = @ \o (IF strict THEN missing
                               ELSE <<>>)]

\* StrictChecks that makes the two checks in both modes
StrictChecks_BothModes(acc, data, strict) ==
    LET edge_cases == Get(data, "EDGE_CASES", VList(<<>>))
        examples == Get(data, "EXAMPLES", VList(<<>>))
    IN  [acc EXCEPT !.warnings = @
            \o (IF IsInstance(edge_cases, "list") /\ Len(edge_cases.xs) < 2
                THEN <<Msg("EDGE_CASES has {len(edge_cases)} entries (strict minimum: 2)",
                           DigitsOf(Len(edge_cases.xs)))>>
                ELSE <<>>)
            \o (IF IsInstance(examples, "list") /\ Len(examples.xs) < 1
                THEN <<Msg("EXAMPLES should have at least 1 entry in strict mode", <<>>)>>
                ELSE <<>>)]

\* the two checks made only in strict mode, on EDGE_CASES and EXAMPLES
StrictChecks(acc, data, strict) ==
    LET edge_cases == Get(data, "EDGE_CASES", VList(<<>>))
        examples == Get(data, "EXAMPLES", VList(<<>>))
    IN  IF strict
        THEN [acc EXCEPT !.warnings = @
                \o (IF IsInstance(edge_cases, "list") /\ Len(edge_cases.xs) < 2
                    THEN <<Msg("EDGE_CASES has {len(edge_cases)} entries (strict minimum: 2)",
                               DigitsOf(Len(edge_cases.xs)))>>
                    ELSE <<>>)
                \o (IF IsInstance(examples, "list") /\ Len(examples.xs) < 1
                    THEN <<Msg("EXAMPLES should have at least 1 entry in strict mode", <<>>)>>
                    ELSE <<>>)]
        ELSE acc

\* Valid with the comparison off by one
Valid_OffByOne(errors) == Len(errors) <= 1

\* valid = len(errors) == 0
Valid(errors) == Len(errors) = 0

\* the summary without the part on the warnings
Summary_ErrorsOnly(errors, warnings) ==
    IF Valid(errors)
    THEN <<"V", "a", "l", "i", "d", " ", "R", "U", "N", "E", " ", "s", "p", "e", "c", "i", "f", "i", "c", "a", "t", "i", "o", "n">>
    ELSE <<"I", "n", "v", "a", "l", "i", "d", ":", " ">> \o DigitsOf(Len(errors)) \o <<" ", "e", "r", "r", "o", "r", "(", "s", ")">>

\* "Summary": the one-line summary of the lists at the end of validate_spec
Summary(errors, warnings) ==
    LET first == IF Valid(errors)
                 THEN <<"V", "a", "l", "i", "d", " ", "R", "U", "N", "E", " ", "s", "p", "e", "c", "i", "f", "i", "c", "a", "t", "i", "o", "n">>
                 ELSE <<"I", "n", "v", "a", "l", "i", "d", ":", " ">> \o DigitsOf(Len(errors)) \o <<" ", "e", "r", "r", "o", "r", "(", "s", ")">>
        summary_parts ==
            IF warnings # <<>>
            THEN <<first, DigitsOf(Len(warnings)) \o <<" ", "w", "a", "r", "n", "i", "n", "g", "(", "s", ")">>>>
            ELSE <<first>>
    IN  Join(summary_parts, <<".", " ">>)

\* validate_spec(content, strict=strict) in a process with hash seed `seed`
validate_spec(content, strict, seed) ==
    LET loaded == safe_load(content)
        data == loaded.ret
    IN  IF loaded.exc = "YAMLError"
        THEN Return(DecodeErrorReport(loaded.ret))
        ELSE IF ~IsInstance(data, "dict")
        THEN Return(RootShapeReport(data))
        ELSE LET checked == MetaSection(RequiredFields(EmptyLists, data, seed),
                                        data, seed)
                 acc == StrictChecks(
                          OptionalFields(
                            TestsField(
                              BehaviorField(
                                IntentField(
                                  SignatureField(
                                    RuneField(checked, data), data), data), data),
                              data), data, strict, seed), data, strict)
             IN  IF checked.exc # ""
                 THEN Raise(checked.exc, Msg("", <<>>))
                 ELSE Return([valid |-> Valid(acc.errors),
                              errors |-> acc.errors,
                              warnings |-> acc.warnings,
                              suggestions |-> acc.suggestions,
                              field_summary |-> acc.field_summary,
                              summary |-> Summary(acc.errors, acc.warnings)])

(***************************************************************************)
(* tools/parser.py                                                         *)
(***************************************************************************)
\* the keys of meta that populate the typed fields of RUNEMeta
RecognizedMetaKeys == {"name", "language", "version", "tags", "agent", "mcp_server"}

\* _to_str_list that keeps the null elements of a list
_to_str_list_KeepsNone(value) ==
    CASE value.t = "NoneType" -> <<>>
      [] value.t = "list" -> [i \in 1..Len(value.xs) |-> Strip(PyStr(value.xs[i]))]
      [] value.t = "str" -> IF Strip(value.s) # <<>> THEN <<Strip(value.s)>> ELSE <<>>
      [] OTHER -> <<PyStr(value)>>

\* _to_str_list that returns a scalar string as it is
_to_str_list_RawScalar(value) ==
    CASE value.t = "NoneType" -> <<>>
      [] value.t = "list" ->
            LET NotNone(item) == item.t # "NoneType"
                kept == SelectSeq(value.xs, NotNone)
            IN  [i \in 1..Len(kept) |-> Strip(PyStr(kept[i]))]
      [] value.t = "str" -> IF Strip(value.s) # <<>> THEN <<value.s>> ELSE <<>>
      [] OTHER -> <<PyStr(value)>>

\* _to_str_list(value)
_to_str_list(value) ==
    CASE value.t = "NoneType" -> <<>>
      [] value.t = "list" ->
            LET NotNone(item) == item.t # "NoneType"
                kept == SelectSeq(value.xs, NotNone)
            IN  [i \in 1..Len(kept) |-> Strip(PyStr(kept[i]))]
      [] value.t = "str" -> IF Strip(value.s) # <<>> THEN <<Strip(value.s)>> ELSE <<>>
      [] OTHER -> <<PyStr(value)>>

\* RUNEMeta with the empty string as the default of every field
RUNEMeta_EmptyVersion(raw_meta) ==
    LET Unrecognized(kv) == kv[1] \notin RecognizedMetaKeys
    IN  [name |-> PyStr(Get(raw_meta, "name", VStr(<<>>))),
         language |-> PyStr(Get(raw_meta, "language", VStr(<<>>))),
         version |-> PyStr(Get(raw_meta, "version", VStr(<<>>))),
         tags |-> _to_str_list(Get(raw_meta, "tags", VNone)),
         agent |-> PyStr(Get(raw_meta, "agent", VStr(<<>>))),
         mcp_server |-> PyStr(Get(raw_meta, "mcp_server", VStr(<<>>))),
         extra |-> SelectSeq(raw_meta.kvs, Unrecognized)]

\* RUNEMeta whose extra is a copy of the whole meta mapping
RUNEMeta_ExtraKeepsAll(raw_meta) ==
    [name |-> PyStr(Get(raw_meta, "name", VStr(<<>>))),
     language |-> PyStr(Get(raw_meta, "language", VStr(<<>>))),
     version |-> PyStr(Get(raw_meta, "version", VStr(<<"1", ".", "0">>))),
     tags |-> _to_str_list(Get(raw_meta, "tags", VNone)),
     agent |-> PyStr(Get(raw_meta, "agent", VStr(<<>>))),
     mcp_server |-> PyStr(Get(raw_meta, "mcp_server", VStr(<<>>))),
     extra |-> raw_meta.kvs]

\* meta = RUNEMeta(...) built from the meta mapping
RUNEMeta(raw_meta) ==
    LET Unrecognized(kv) == kv[1] \notin RecognizedMetaKeys
    IN  [name |-> PyStr(Get(raw_meta, "name", VStr(<<>>))),
         language |-> PyStr(Get(raw_meta, "language", VStr(<<>>))),
         version |-> PyStr(Get(raw_meta, "version", VStr(<<"1", ".", "0">>))),
         tags |-> _to_str_list(Get(raw_meta, "tags", VNone)),
         agent |-> PyStr(Get(raw_meta, "agent", VStr(<<>>))),
         mcp_server |-> PyStr(Get(raw_meta, "mcp_server", VStr(<<>>))),
         extra |-> SelectSeq(raw_meta.kvs, Unrecognized)]

\* complexity = RUNEComplexity(...) built from the COMPLEXITY mapping
RUNEComplexity(raw_complexity) ==
    [time |-> PyStr(Get(raw_complexity, "time", VStr(<<>>))),
     space |-> PyStr(Get(raw_complexity, "space", VStr(<<>>)))]

\* RUNEParser._build_spec(data)
_build_spec(data) ==
    LET got_meta == Get(data, "meta", VDict(<<>>))
        raw_meta == IF IsInstance(got_meta, "dict") THEN got_meta ELSE VDict(<<>>)
        got_complexity == Get(data, "COMPLEXITY", VDict(<<>>))
        raw_complexity == IF IsInstance(got_complexity, "dict")
                          THEN got_complexity ELSE VDict(<<>>)
    IN  [meta |-> RUNEMeta(raw_meta),
         complexity |-> RUNEComplexity(raw_complexity),
         rune |-> PyStr(Get(data, "RUNE", VStr(<<>>))),
         signature |-> Strip(PyStr(Get(data, "SIGNATURE", VStr(<<>>)))),
         intent |-> Strip(PyStr(Get(data, "INTENT", VStr(<<>>)))),
         behavior |-> _to_str_list(Get(data, "BEHAVIOR", VNone)),
         tests |-> _to_str_list(Get(data, "TESTS", VNone)),
         constraints |-> _to_str_list(Get(data, "CONSTRAINTS", VNone)),
         edge_cases |-> _to_str_list(Get(data, "EDGE_CASES", VNone)),
         dependencies |-> _to_str_list(Get(data, "DEPENDENCIES", VNone)),
         examples |-> _to_str_list(Get(data, "EXAMPLES", VNone)),
         raw |-> data]

\* RUNESpec.test_count
test_count(self) == Len(self.tests)

\* the entry <<key, list>> of a list field, when the list is not empty
ListEntry(key, strs) == IF strs # <<>> THEN << <<key, StrList(strs)>> >> ELSE <<>>

\* the entry <<key, string>> of a string field, when the string is not empty
StrEntry(key, str) == IF str # <<>> THEN << <<key, VStr(str)>> >> ELSE <<>>

\* to_dict that writes every field, empty or not
to_dict_AllFields(self) ==
    VDict(<< <<"meta", VDict(<< <<"name", VStr(self.meta.name)>>,
                                <<"language", VStr(self.meta.language)>>,
                                <<"version", VStr(self.meta.version)>>,
                                <<"tags", StrList(self.meta.tags)>>,
                                <<"agent", VStr(self.meta.agent)>>,
                                <<"mcp_server", VStr(self.meta.mcp_server)>> >>)>>,
             <<"RUNE", VStr(self.rune)>>,
             <<"SIGNATURE", VStr(self.signature)>>,
             <<"INTENT", VStr(self.intent)>>,
             <<"BEHAVIOR", StrList(self.behavior)>>,
             <<"TESTS", StrList(self.tests)>>,
             <<"CONSTRAINTS", StrList(self.constraints)>>,
             <<"EDGE_CASES", StrList(self.edge_cases)>>,
             <<"DEPENDENCIES", StrList(self.dependencies)>>,
             <<"EXAMPLES", StrList(self.examples)>>,
             <<"COMPLEXITY", VDict(<< <<"time", VStr(self.complexity.time)>>,
                                      <<"space", VStr(self.complexity.space)>> >>)>> >>)

\* to_dict that leaves the version out of meta
to_dict_NoVersion(self) ==
    LET meta == << <<"name", VStr(self.meta.name)>>,
                   <<"language", VStr(self.meta.language)>> >>
                \o ListEntry("tags", self.meta.tags)
                \o StrEntry("agent", self.meta.agent)
                \o StrEntry("mcp_server", self.meta.mcp_server)
        complexity == StrEntry("time", self.complexity.time)
                      \o StrEntry("space", self.complexity.space)
    IN  VDict(<< <<"meta", VDict(meta)>>,
                 <<"RUNE", VStr(self.rune)>>,
                 <<"SIGNATURE", VStr(self.signature)>>,
                 <<"INTENT", VStr(self.intent)>>,
                 <<"BEHAVIOR", StrList(self.behavior)>>,
                 <<"TESTS", StrList(self.tests)>> >>
              \o ListEntry("CONSTRAINTS", self.constraints)
              \o ListEntry("EDGE_CASES", self.edge_cases)
              \o ListEntry("DEPENDENCIES", self.dependencies)
              \o ListEntry("EXAMPLES", self.examples)
              \o (IF self.complexity.time # <<>> \/ self.complexity.space # <<>>
                  THEN << <<"COMPLEXITY", VDict(complexity)>> >> ELSE <<>>))

\* RUNESpec.to_dict(): the mapping written back, keys in insertion order
to_dict(self) ==
    LET meta == << <<"name", VStr(self.meta.name)>>,
                   <<"language", VStr(self.meta.language)>>,
                   <<"version", VStr(self.meta.version)>> >>
                \o ListEntry("tags", self.meta.tags)
                \o StrEntry("agent", self.meta.agent)
                \o StrEntry("mcp_server", self.meta.mcp_server)
        complexity == StrEntry("time", self.complexity.time)
                      \o StrEntry("space", self.complexity.space)
    IN  VDict(<< <<"meta", VDict(meta)>>,
                 <<"RUNE", VStr(self.rune)>>,
                 <<"SIGNATURE", VStr(self.signature)>>,
                 <<"INTENT", VStr(self.intent)>>,
                 <<"BEHAVIOR", StrList(self.behavior)>>,
                 <<"TESTS", StrList(self.tests)>> >>
              \o ListEntry("CONSTRAINTS", self.constraints)
              \o ListEntry("EDGE_CASES", self.edge_cases)
              \o ListEntry("DEPENDENCIES", self.dependencies)
              \o ListEntry("EXAMPLES", self.examples)
              \o (IF self.complexity.time # <<>> \/ self.complexity.space # <<>>
                  THEN << <<"COMPLEXITY", VDict(complexity)>> >> ELSE <<>>))

\* parse_string with the blank check made after decoding
parse_string_DecodeFirst(content) ==
    LET loaded == safe_load(content)
    IN  IF loaded.exc = "YAMLError"
        THEN Raise("ParseError", Msg("Invalid YAML: {exc}", loaded.ret))
        ELSE IF ~IsInstance(loaded.ret, "dict")
        THEN Raise("ParseError",
                   Msg("Expected YAML mapping, got {type}", TypeName(loaded.ret)))
        ELSE IF IsEmptyText(content) \/ IsBlankText(content)
        THEN Raise("ParseError", Msg("Spec content is empty", <<>>))
        ELSE Return(_build_spec(loaded.ret))

\* RUNEParser.parse_string(content)
parse_string(content) ==
    IF IsEmptyText(content) \/ IsBlankText(content)
    THEN Raise("ParseError", Msg("Spec content is empty", <<>>))
    ELSE LET loaded == safe_load(content)
         IN  IF loaded.exc = "YAMLError"
             THEN Raise("ParseError", Msg("Invalid YAML: {exc}", loaded.ret))
             ELSE IF ~IsInstance(loaded.ret, "dict")
             THEN Raise("ParseError",
                        Msg("Expected YAML mapping, got {type}", TypeName(loaded.ret)))
             ELSE Return(_build_spec(loaded.ret))

\* parse_rune_string on a parser that keeps the first outcome and returns it
\* to every later call
parse_rune_string_Cached(self, content) ==
    IF Len(self) > 0
    THEN [self |-> self, out |-> self[1][2]]
    ELSE [self |-> << <<"_last", parse_string(content)>> >>, out |-> parse_string(content)]

\* parse_rune_string(content): _default_parser.parse_string(content), where
\* self holds the attributes of _default_parser; returns them with the outcome
parse_rune_string(self, content) == [self |-> self, out |-> parse_string(content)]

\* validate without the membership test on the language
validate_NoMembership(spec) ==
    (IF spec.meta.name = <<>>
     THEN <<Msg("meta.name is required", <<>>)>> ELSE <<>>)
    \o (IF spec.meta.language = <<>>
        THEN <<Msg("meta.language is required", <<>>)>> ELSE <<>>)
    \o (IF spec.rune = <<>>
        THEN <<Msg("RUNE field is required", <<>>)>> ELSE <<>>)
    \o (IF Strip(spec.signature) = <<>>
        THEN <<Msg("SIGNATURE is required", <<>>)>> ELSE <<>>)
    \o (IF Strip(spec.intent) = <<>>
        THEN <<Msg("INTENT is required", <<>>)>> ELSE <<>>)
    \o (IF spec.behavior = <<>>
        THEN <<Msg("BEHAVIOR must have at least one entry", <<>>)>> ELSE <<>>)
    \o (IF spec.tests = <<>>
        THEN <<Msg("TESTS must have at least one entry", <<>>)>> ELSE <<>>)

\* validate with the membership test made by an `if` of its own
validate_LanguageTwice(spec) ==
    (IF spec.meta.name = <<>>
     THEN <<Msg("meta.name is required", <<>>)>> ELSE <<>>)
    \o (IF spec.meta.language = <<>>
        THEN <<Msg("meta.language is required", <<>>)>> ELSE <<>>)
    \o (IF spec.meta.language \notin SUPPORTED_LANGUAGES
        THEN <<Msg("Unsupported language: {language}", spec.meta.language)>>
        ELSE <<>>)
    \o (IF spec.rune = <<>>
        THEN <<Msg("RUNE field is required", <<>>)>> ELSE <<>>)
    \o (IF Strip(spec.signature) = <<>>
        THEN <<Msg("SIGNATURE is required", <<>>)>> ELSE <<>>)
    \o (IF Strip(spec.intent) = <<>>
        THEN <<Msg("INTENT is required", <<>>)>> ELSE <<>>)
    \o (IF spec.behavior = <<>>
        THEN <<Msg("BEHAVIOR must have at least one entry", <<>>)>> ELSE <<>>)
    \o (IF spec.tests = <<>>
        THEN <<Msg("TESTS must have at least one entry", <<>>)>> ELSE <<>>)

\* RUNEParser.validate(spec)
validate(spec) ==
    (IF spec.meta.name = <<>>
     THEN <<Msg("meta.name is required", <<>>)>> ELSE <<>>)
    \o (IF spec.meta.language = <<>>
        THEN <<Msg("meta.language is required", <<>>)>>
        ELSE IF spec.meta.language \notin SUPPORTED_LANGUAGES
        THEN <<Msg("Unsupported language: {language}", spec.meta.language)>>
        ELSE <<>>)
    \o (IF spec.rune = <<>>
        THEN <<Msg("RUNE field is required", <<>>)>> ELSE <<>>)
    \o (IF Strip(spec.signature) = <<>>
        THEN <<Msg("SIGNATURE is required", <<>>)>> ELSE <<>>)
    \o (IF Strip(spec.intent) = <<>>
        THEN <<Msg("INTENT is required", <<>>)>> ELSE <<>>)
    \o (IF spec.behavior = <<>>
        THEN <<Msg("BEHAVIOR must have at least one entry", <<>>)>> ELSE <<>>)
    \o (IF spec.tests = <<>>
        THEN <<Msg("TESTS must have at least one entry", <<>>)>> ELSE <<>>)

\* PurePath.suffix of a file name: the part from the last dot on, when that
\* dot is neither the first nor the last character of the name
PathSuffix(name) ==
    LET Dots == {i \in 1..Len(name) : name[i] = "."}
        i == CHOOSE d \in Dots : \A e \in Dots : e <= d
    IN  IF Dots # {} /\ 1 < i /\ i < Len(name)
        THEN SubSeq(name, i, Len(name)) ELSE <<>>

\* validate_file that hands a blank content to validate_spec
validate_file_NoBlankCheck(filepath, content, strict, seed) ==
    IF ~filepath.exists
    THEN Raise("FileNotFoundError", Msg("File not found: {filepath}", filepath.name))
    ELSE LET out == validate_spec(content, strict, seed)
             report == [k \in DOMAIN out.ret \cup {"filepath"} |->
                           IF k = "filepath" THEN filepath.name ELSE out.ret[k]]
         IN  IF out.exc # ""
             THEN out
             ELSE IF PathSuffix(filepath.name) # <<".", "r", "u", "n", "e">>
             THEN Return([report EXCEPT !.warnings = @ \o
                             <<Msg("File extension is '{filepath.suffix}', expected '.rune'",
                                   PathSuffix(filepath.name))>>])
             ELSE Return(report)

\* validate_file(filepath, strict=strict): filepath is a path with a name, that
\* exists or not, and `content` is what read_text returns for it
validate_file(filepath, content, strict, seed) ==
    IF ~filepath.exists
    THEN Raise("FileNotFoundError", Msg("File not found: {filepath}", filepath.name))
    ELSE IF IsBlankText(content)
    THEN Return([valid |-> FALSE,
                 filepath |-> filepath.name,
                 errors |-> <<Msg("File is empty", <<>>)>>,
                 warnings |-> <<>>,
                 suggestions |-> <<Msg("Add RUNE spec content to the file", <<>>)>>,
                 field_summary |-> <<>>])
    ELSE LET out == validate_spec(content, strict, seed)
             report == [k \in DOMAIN out.ret \cup {"filepath"} |->
                           IF k = "filepath" THEN filepath.name ELSE out.ret[k]]
         IN  IF out.exc # ""
             THEN out
             ELSE IF PathSuffix(filepath.name) # <<".", "r", "u", "n", "e">>
             THEN Return([report EXCEPT !.warnings = @ \o
                             <<Msg("File extension is '{filepath.suffix}', expected '.rune'",
                                   PathSuffix(filepath.name))>>])
             ELSE Return(report)

\* the characters of the path names of the model, by increasing code point
CharOrder ==
    <<"-", ".", "/", "_", "a", "b", "c", "d", "e", "n", "o", "p", "r", "s", "t", "u", "x">>

\* ord(c)
Code(c) == CHOOSE i \in 1..Len(CharOrder) : CharOrder[i] = c

\* s < t for two strings
StrLess(s, t) ==
    \E k \in 0..Len(s) :
        /\ k <= Len(t)
        /\ SubSeq(s, 1, k) = SubSeq(t, 1, k)
        /\ \/ k = Len(s) /\ k < Len(t)
           \/ k < Len(s) /\ k < Len(t) /\ Code(s[k + 1]) < Code(t[k + 1])

\* p < q for two paths: pathlib compares the tuples of their components
PathLess(p, q) ==
    \E k \in 0..Len(p) :
        /\ k <= Len(q)
        /\ SubSeq(p, 1, k) = SubSeq(q, 1, k)
        /\ \/ k = Len(p) /\ k < Len(q)
           \/ k < Len(p) /\ k < Len(q) /\ StrLess(p[k + 1], q[k + 1])

RECURSIVE sorted(_)
\* sorted(entries): the entries by increasing path
sorted(entries) ==
    IF entries = {} THEN <<>>
    ELSE LET first == CHOOSE e \in entries :
                          \A f \in entries \ {e} : PathLess(e.parts, f.parts)
         IN  <<first>> \o sorted(entries \ {first})

\* str(path)
PathStr(parts) == Join(parts, <<"/">>)

\* the pattern "*.rune" matches the name
MatchesRune(name) ==
    Len(name) >= 5 /\ SubSeq(name, Len(name) - 4, Len(name)) = <<".", "r", "u", "n", "e">>

\* dirpath.rglob("*.rune"): the entries under dirpath, files and directories,
\* whose name matches
rglob(entries) == {e \in entries : MatchesRune(e.parts[Len(e.parts)])}

\* validate_file(rune_file, strict=strict) for an entry the scan found:
\* read_text fails on a directory
ValidateEntry(dirpath, entry, strict, seed) ==
    IF entry.kind = "dir"
    THEN Raise("IsADirectoryError",
               Msg("[Errno 21] Is a directory: {path}", PathStr(dirpath \o entry.parts)))
    ELSE validate_file([exists |-> TRUE, name |-> PathStr(dirpath \o entry.parts)],
                       entry.content, strict, seed)

\* the list the loop of validate_directory builds from the outcomes of its
\* validate_file calls, in their order: the first exception ends the scan
Scanned(outs) ==
    LET Failed(i) == outs[i].exc # ""
    IN  IF \E i \in 1..Len(outs) : Failed(i)
        THEN outs[CHOOSE i \in 1..Len(outs) :
                      Failed(i) /\ \A j \in 1..(i - 1) : ~Failed(j)]
        ELSE Return([i \in 1..Len(outs) |-> outs[i].ret])

\* validate_directory(dirpath, strict=strict): `entries` holds the entries under
\* dirpath; the first exception of a validate_file call ends the scan
validate_directory(dirpath, entries, strict, seed) ==
    LET found == sorted(rglob(entries))
    IN  Scanned([i \in 1..Len(found) |-> ValidateEntry(dirpath, found[i], strict, seed)])

\* the lines main prints for one report
ReportLines(report) ==
    (IF report.valid
     THEN <<Msg("  PASS  {filepath}", report.filepath)>>
     ELSE <<Msg("  FAIL  {filepath}", report.filepath)>>
          \o [i \in 1..Len(report.errors) |->
                 Msg("        ERROR: {err}", report.errors[i])])
    \o [i \in 1..Len(report.warnings) |-> Msg("        WARN:  {warn}", report.warnings[i])]
    \o [i \in 1..Len(report.suggestions) |->
           Msg("        FIX:   {sug}", report.suggestions[i])]

RECURSIVE AllReportLines(_)
\* the lines main prints for the reports, in their order
AllReportLines(reports) ==
    IF reports = <<>> THEN <<>>
    ELSE ReportLines(Head(reports)) \o AllReportLines(Tail(reports))

\* sum(1 for r in reports if r["valid"])
Passed(reports) == Cardinality({i \in 1..Len(reports) : reports[i].valid})

\* the output and the return value of main once it holds the reports
Finish(reports, json_output) ==
    LET total == Len(reports)
        passed == Passed(reports)
        failed == total - passed
    IN  Return([code |-> IF \A i \in 1..Len(reports) : reports[i].valid THEN 0 ELSE 1,
                stdout |->
                    IF json_output
                    THEN <<Msg("{json.dumps(reports, indent=2)}", reports)>>
                    ELSE AllReportLines(reports)
                         \o <<Msg("", <<>>),
                              Msg("Results: {passed} passed, {failed} failed, {total} total",
                                  <<passed, failed, total>>)>>])

\* main once validate_file has run on the path of a file
FinishFile(out, json_output) ==
    IF out.exc # "" THEN out ELSE Finish(<<out.ret>>, json_output)

\* main that goes on with the empty list of an empty scan
FinishDirectory_EmptyScanPasses(out, path, json_output) ==
    IF out.exc # "" THEN out ELSE Finish(out.ret, json_output)

\* main once validate_directory has run on the path of a directory
FinishDirectory(out, path, json_output) ==
    IF out.exc # "" THEN out
    ELSE IF Len(out.ret) = 0
    THEN Return([code |-> 1,
                 stdout |-> <<Msg("No .rune files found in {target}", PathStr(path))>>])
    ELSE Finish(out.ret, json_output)

\* main(), run with the arguments path, --strict and --json on the file
\* system fs: what the path names (kind), the content of the file or the
\* entries under the directory
main(path, strict, json_output, fs, seed) ==
    IF fs.kind = "file"
    THEN FinishFile(validate_file([exists |-> TRUE, name |-> PathStr(path)],
                                  fs.content, strict, seed),
                    json_output)
    ELSE IF fs.kind = "dir"
    THEN FinishDirectory(validate_directory(path, fs.tree, strict, seed), path, json_output)
    ELSE Return([code |-> 1, stdout |-> <<Msg("Path not found: {target}", PathStr(path))>>])

\* the exit status of the process that runs sys.exit(main()): the return
\* value of main, or 1 when an exception leaves main
ExitStatus(out) == IF out.exc = "" THEN out.ret.code ELSE 1

(***************************************************************************)
(* The inputs of the model: a well-formed document and the documents that  *)
(* differ from it in one field, or in two fields of a smaller set.         *)
(***************************************************************************)
Absent == Value("absent", <<>>, 0, <<>>, <<>>)     \* the key does not occur
Nested == Value("nested", <<>>, 0, <<>>, <<>>)     \* meta holds the meta keys

TopKeys == REQUIRED_FIELDS \o OPTIONAL_FIELDS
MetaKeys == <<"name", "language", "version", "tags", "agent", "mcp_server", "author">>

Paths == {<<TopKeys[i]>> : i \in 1..Len(TopKeys)}
             \cup {<<"meta", MetaKeys[i]>> : i \in 1..Len(MetaKeys)}

\* the mapping a choice of values describes, keys in document order
Build(c) ==
    LET MetaPresent(k) == c[<<"meta", k>>] # Absent
        mkeys == SelectSeq(MetaKeys, MetaPresent)
        meta == VDict([i \in 1..Len(mkeys) |-> <<mkeys[i], c[<<"meta", mkeys[i]>>]>>])
        Present(k) == c[<<k>>] # Absent
        keys == SelectSeq(TopKeys, Present)
    IN  VDict([i \in 1..Len(keys) |->
                 <<keys[i],
                   IF keys[i] = "meta" /\ c[<<"meta">>] = Nested
                   THEN meta ELSE c[<<keys[i]>>]>>])

\* a list of n test cases
TestCases(n) == VList([i \in 1..n |-> VStr(<<"t">>)])

\* the well-formed document
Base ==
    [p \in Paths |->
        CASE p = <<"meta">> -> Nested
          [] p = <<"meta", "name">> -> VStr(<<"a", "d", "d">>)
          [] p = <<"meta", "language">> -> VStr(<<"p", "y", "t", "h", "o", "n">>)
          [] p = <<"RUNE">> -> VStr(<<"a", "d", "d">>)
          [] p = <<"SIGNATURE">> -> VStr(<<"d", "e", "f", " ", "f", "(", ")">>)
          [] p = <<"INTENT">> -> VStr(<<"O", "k", ".">>)
          [] p = <<"BEHAVIOR">> -> VList(<<VStr(<<"W", "H", "E", "N", " ", "a", " ", "T", "H", "E", "N", " ", "b">>)>>)
          [] p = <<"TESTS">> -> TestCases(3)
          [] OTHER -> Absent]

\* the other values tried for one field
Alt(p) ==
    CASE p = <<"meta">> ->
            {Absent, VNone, VStr(<<"x">>), VInt(1), VList(<<>>), VDict(<<>>)}
      [] p = <<"meta", "name">> ->
            {Absent, VNone, VStr(<<>>), VStr(<<"m", "y", "-", "f">>), VStr(<<"a", "d", "d", "\n">>), VInt(0),
             VInt(7), VBool(TRUE), VList(<<>>), VList(<<VStr(<<"a">>)>>)}
      [] p = <<"meta", "language">> ->
            {Absent, VNone, VStr(<<>>), VStr(<<"b", "f">>), VStr(<<"g", "o">>), VStr(<<"G", "o">>),
             VInt(3), VList(<<>>), VList(<<VStr(<<"g", "o">>)>>),
             VDict(<<<<"name", VStr(<<"g", "o">>)>>>>)}
      [] p = <<"meta", "version">> -> {VNone, VStr(<<"2", ".", "0">>), VInt(2)}
      [] p = <<"meta", "tags">> ->
            {VNone, VStr(<<"a">>), VList(<<VStr(<<"b">>), VStr(<<"a">>)>>)}
      [] p = <<"meta", "agent">> -> {VStr(<<"x">>)}
      [] p = <<"meta", "mcp_server">> -> {VStr(<<"x">>)}
      [] p = <<"meta", "author">> -> {VStr(<<"m", "e">>), VInt(1)}
      [] p = <<"RUNE">> ->
            {Absent, VNone, VStr(<<>>), VStr(<<" ">>), VStr(<<"m", "y", "-", "f">>), VInt(0),
             VInt(7), VList(<<>>), VList(<<VStr(<<"a">>)>>), VDict(<<>>)}
      [] p = <<"SIGNATURE">> ->
            {Absent, VNone, VStr(<<>>), VStr(<<" ", " ">>), VStr(<<"f", "(", "x", ")">>),
             VStr(<<" ", "D", "E", "F", " ", "f", " ">>), VStr(<<"d", "e", "f">>), VStr(<<"f", " ", "d", "e", "f", " ">>), VInt(7), VList(<<VStr(<<"d", "e", "f", " ", "f">>)>>)}
      [] p = <<"INTENT">> ->
            {Absent, VNone, VStr(<<>>), VStr(<<" ", "\n">>), VStr(<<"a", ".", "b", ".", "c", ".", "d", ".", "e", ".", "f">>),
             VStr(<<"a", ".", " ", ".", "b", ".", "c", ".", "d", ".", "e", ".">>), VInt(7), VList(<<VStr(<<"O", "k", ".">>)>>)}
      [] p = <<"BEHAVIOR">> ->
            {Absent, VNone, VStr(<<>>), VStr(<<"W", "H", "E", "N", " ", "a", " ", "T", "H", "E", "N", " ", "b">>), VInt(5),
             VDict(<<>>), VList(<<>>), VList(<<VNone>>), VList(<<VStr(<<" ">>)>>),
             VList(<<VStr(<<"x">>)>>), VList(<<VStr(<<"W", "H", "E", "N", " ", "a">>), VStr(<<"T", "H", "E", "N", " ", "b">>)>>)}
      [] p = <<"TESTS">> ->
            {Absent, VNone, VStr(<<>>), VStr(<<"t">>), VInt(5), VList(<<VNone>>),
             VList(<<VInt(1), VNone, VStr(<<" ", "t", " ">>)>>)}
            \cup {TestCases(n) : n \in (0..MaxTests) \ {3}}
      [] p = <<"COMPLEXITY">> ->
            {VNone, VStr(<<"O", "(", "1", ")">>), VDict(<<>>),
             VDict(<<<<"time", VStr(<<"O", "(", "1", ")">>)>>>>),
             VDict(<<<<"space", VStr(<<"O", "(", "n", ")">>)>>, <<"time", VStr(<<"O", "(", "1", ")">>)>>>>)}
      [] OTHER ->
            {VNone, VStr(<<"x">>), VList(<<>>), VList(<<VStr(<<"x">>)>>),
             VList(<<VStr(<<"x">>), VStr(<<" ", "y">>)>>)}

\* the values of a field that are also combined with a change of another field
CoreAlt(p) ==
    CASE p = <<"meta">> -> {Absent, VNone}
      [] p = <<"meta", "name">> -> {Absent, VStr(<<"m", "y", "-", "f">>)}
      [] p = <<"meta", "language">> -> {Absent, VStr(<<"b", "f">>)}
      [] p = <<"RUNE">> -> {Absent, VNone}
      [] p = <<"SIGNATURE">> -> {Absent, VStr(<<"f", "(", "x", ")">>)}
      [] p = <<"INTENT">> -> {Absent}
      [] p = <<"BEHAVIOR">> -> {Absent, VList(<<VStr(<<"x">>)>>)}
      [] p = <<"TESTS">> -> {Absent, TestCases(1)}
      [] p = <<"EDGE_CASES">> -> {VList(<<VStr(<<"x">>)>>)}
      [] p = <<"EXAMPLES">> -> {VList(<<VStr(<<"x">>)>>)}
      [] p = <<"CONSTRAINTS">> -> {VList(<<VStr(<<"x">>)>>)}
      [] p = <<"COMPLEXITY">> -> {VDict(<<<<"time", VStr(<<"O", "(", "1", ")">>)>>>>)}
      [] OTHER -> {}

Singles == UNION {{[Base EXCEPT ![p] = v] : v \in Alt(p)} : p \in Paths}

Doubles ==
    UNION {{[c EXCEPT ![p] = v] : v \in CoreAlt(p)} :
              <<c, p>> \in {<<d, q>> \in
                  (UNION {{[Base EXCEPT ![r] = w] : w \in CoreAlt(r)} : r \in Paths})
                  \X Paths : d[q] = Base[q]}}

\* decoded roots that are not mappings
OtherRoots ==
    {VNone, VStr(<<"h", "e", "l", "l", "o">>), VInt(42), VBool(TRUE), VList(<<>>),
     VList(<<VStr(<<"j", "u", "s", "t">>), VStr(<<"a">>), VStr(<<"l", "i", "s", "t">>)>>)}

RawTexts == {RawText(<<>>), RawText(<<" ">>), RawText(<<" ", "\n">>), RawText(BrokenYaml)}

Texts ==
    RawTexts
    \cup {DumpText(v) : v \in OtherRoots}
    \cup {DumpText(Build(c)) : c \in {Base} \cup Singles \cup Doubles}

(***************************************************************************)
(* The state machine: one process, started with a hash seed, whose caller  *)
(* applies the entry points to a text.                                     *)
(***************************************************************************)
NoFile == [exists |-> FALSE, name |-> <<>>]
Call(strict, out) == [strict |-> strict, out |-> out]
NoCallYet == Call(FALSE, NoCall)

\* _default_parser = RUNEParser(): an instance without attributes
FreshParser == <<>>

Callers == 1..MaxCallers

\* a caller that has not called
Idle == [pc |-> "idle", k |-> 0, out |-> NoCall]

\* no caller has called
NoCalls == defaultParser = FreshParser /\ calls = [c \in Callers |-> Idle]

\* no directory was scanned and the command line was not run
NoDirectory ==
    /\ tree = {}
    /\ dirCall = NoCallYet
    /\ target = "none"
    /\ cliCall = [strict |-> FALSE, json_output |-> FALSE, out |-> NoCall]

\* nothing was handed to _to_str_list
NoCoercion == given = VNone /\ coerced = NoCall /\ prevCoerced = NoCall

Init ==
    /\ hashSeed \in Seeds
    /\ text \in Texts
    /\ prevCall = NoCallYet
    /\ lastCall = NoCallYet
    /\ parsed = NoCall
    /\ verrs = NoCall
    /\ file = NoFile
    /\ fileCall = NoCallYet
    /\ NoCoercion
    /\ dumped = NoCall
    /\ NoDirectory
    /\ NoCalls

\* the process ends and a new one starts: a new hash seed is drawn
NewRun ==
    /\ \E s \in Seeds \ {hashSeed} : hashSeed' = s
    /\ UNCHANGED <<text, prevCall, lastCall, parsed, verrs, file, fileCall>>
    /\ UNCHANGED <<coerceVars, dumped, dirVars, callVars>>

\* the caller runs validate_spec(text, strict=strict)
ValidateText(strict) ==
    /\ prevCall' = lastCall
    /\ lastCall' = Call(strict, validate_spec(text, strict, hashSeed))
    /\ UNCHANGED <<hashSeed, text, parsed, verrs, file, fileCall>>
    /\ UNCHANGED <<coerceVars, dumped, dirVars, callVars>>

\* the caller runs parse_rune_string(text)
Parse ==
    /\ parsed' = parse_string(text)
    /\ verrs' = NoCall
    /\ UNCHANGED <<hashSeed, text, prevCall, lastCall, file, fileCall>>
    /\ UNCHANGED <<coerceVars, dumped, dirVars, callVars>>

\* the caller runs RUNEParser().validate(spec) on the parsed spec
StructuralValidate ==
    /\ parsed.exc = ""
    /\ verrs' = Return(validate(parsed.ret))
    /\ UNCHANGED <<hashSeed, text, prevCall, lastCall, parsed, file, fileCall>>
    /\ UNCHANGED <<coerceVars, dumped, dirVars, callVars>>

Next ==
    \/ NewRun
    \/ \E strict \in BOOLEAN : ValidateText(strict)
    \/ Parse
    \/ StructuralValidate

Spec == Init /\ [][Next]_vars

(***************************************************************************)
(* The state machine of the file entry point: `text` is the content of the *)
(* file at the path `file`.                                                *)
(***************************************************************************)
Files ==
    {[exists |-> FALSE, name |-> <<"g", "o", "n", "e", ".", "r", "u", "n", "e">>],
     [exists |-> TRUE, name |-> <<"a", ".", "r", "u", "n", "e">>],
     [exists |-> TRUE, name |-> <<"a", ".", "y", "a", "m", "l">>],
     [exists |-> TRUE, name |-> <<"r", "u", "n", "e">>],
     [exists |-> TRUE, name |-> <<".", "r", "u", "n", "e">>]}

\* the contents of the files: the blank and malformed texts, the roots that
\* are not mappings, the well-formed document and its core variations
FileTexts ==
    RawTexts
    \cup {DumpText(v) : v \in OtherRoots}
    \cup {DumpText(Build(c)) :
             c \in {Base} \cup
                   UNION {{[Base EXCEPT ![p] = v] : v \in CoreAlt(p)} : p \in Paths}}

InitFile ==
    /\ hashSeed \in Seeds
    /\ file \in Files
    /\ text \in FileTexts
    /\ prevCall = NoCallYet
    /\ lastCall = NoCallYet
    /\ parsed = NoCall
    /\ verrs = NoCall
    /\ fileCall = NoCallYet
    /\ NoCoercion
    /\ dumped = NoCall
    /\ NoDirectory
    /\ NoCalls

\* the caller runs validate_file(file, strict=strict)
ValidateFile(strict) ==
    /\ fileCall' = Call(strict, validate_file(file, text, strict, hashSeed))
    /\ UNCHANGED <<hashSeed, text, prevCall, lastCall, parsed, verrs, file>>
    /\ UNCHANGED <<coerceVars, dumped, dirVars, callVars>>

NextFile ==
    \/ NewRun
    \/ \E strict \in BOOLEAN : ValidateText(strict)
    \/ \E strict \in BOOLEAN : ValidateFile(strict)

SpecFile == InitFile /\ [][NextFile]_vars

(***************************************************************************)
(* The state machine of the round trip: the caller parses a text and       *)
(* writes the spec back as a mapping.                                      *)
(***************************************************************************)
InitRoundTrip ==
    /\ hashSeed = 0
    /\ text \in Texts
    /\ prevCall = NoCallYet
    /\ lastCall = NoCallYet
    /\ parsed = NoCall
    /\ verrs = NoCall
    /\ file = NoFile
    /\ fileCall = NoCallYet
    /\ NoCoercion
    /\ dumped = NoCall
    /\ NoDirectory
    /\ NoCalls

\* the caller runs spec.to_dict() on the parsed spec
ToDict ==
    /\ parsed.exc = ""
    /\ dumped' = Return(to_dict(parsed.ret))
    /\ UNCHANGED <<hashSeed, text, prevCall, lastCall, parsed, verrs, file, fileCall>>
    /\ UNCHANGED <<coerceVars, dirVars, callVars>>

NextRoundTrip ==
    \/ Parse
    \/ ToDict

SpecRoundTrip == InitRoundTrip /\ [][NextRoundTrip]_vars

(***************************************************************************)
(* The state machine of the directory scan: `tree` holds the entries under *)
(* the directory, each with its path relative to the directory, its kind   *)
(* and, for a file, its content.                                           *)
(***************************************************************************)
Entry(parts, kind, content) == [parts |-> parts, kind |-> kind, content |-> content]

\* the directory handed to validate_directory and to main
Dirpath == <<<<"s", "p", "e", "c", "s">>>>

\* the paths of the files named *.rune, relative to the directory
RunePaths ==
    <<<<<<"a">>, <<"b", ".", "r", "u", "n", "e">>>>, <<<<"a", "-", "b", ".", "r", "u", "n", "e">>>>, <<<<"b", ".", "r", "u", "n", "e">>>>, <<<<"a">>, <<"a", ".", "r", "u", "n", "e">>>>,
      <<<<"c", "_", "d", ".", "r", "u", "n", "e">>>>>>

\* no content: the path is not in the directory, or names a directory
NoContent == [form |-> "none", chars |-> <<>>, doc |-> VNone]

\* the contents of the files: the well-formed document, the document without
\* INTENT, a blank file, and the document whose meta.name is an integer
DirTexts ==
    {DumpText(Build(Base)),
     DumpText(Build([Base EXCEPT ![<<"INTENT">>] = Absent])),
     RawText(<<" ", "\n">>),
     DumpText(Build([Base EXCEPT ![<<"meta", "name">>] = VInt(7)]))}

\* a file with another suffix, and a directory named like a spec file
OtherEntries ==
    {Entry(<<<<"n", "o", "t", "e", "s", ".", "t", "x", "t">>>>, "file", DumpText(Build(Base))),
     Entry(<<<<"c", ".", "r", "u", "n", "e">>>>, "dir", NoContent)}

Trees ==
    {{Entry(RunePaths[i], "file", f[i]) : i \in {j \in 1..MaxFiles : f[j].form # "none"}}
        \cup others :
     f \in [1..MaxFiles -> DirTexts \cup {NoContent}], others \in SUBSET OtherEntries}

NotRun == [strict |-> FALSE, json_output |-> FALSE, out |-> NoCall]

InitDir ==
    /\ hashSeed \in Seeds
    /\ text = RawText(<<>>)
    /\ prevCall = NoCallYet
    /\ lastCall = NoCallYet
    /\ parsed = NoCall
    /\ verrs = NoCall
    /\ file = NoFile
    /\ fileCall = NoCallYet
    /\ NoCoercion
    /\ dumped = NoCall
    /\ tree \in Trees
    /\ dirCall = NoCallYet
    /\ target = "dir"
    /\ cliCall = NotRun
    /\ NoCalls

\* the caller runs validate_directory(Dirpath, strict=strict)
ValidateDirectory(strict) ==
    /\ dirCall' = Call(strict, validate_directory(Dirpath, tree, strict, hashSeed))
    /\ UNCHANGED <<hashSeed, text, prevCall, lastCall, parsed, verrs, file, fileCall>>
    /\ UNCHANGED <<coerceVars, dumped, tree, target, cliCall, callVars>>

NextDir == \E strict \in BOOLEAN : ValidateDirectory(strict)

SpecDir == InitDir /\ [][NextDir]_vars

(***************************************************************************)
(* The state machine of the command line: the path names a file (`file`    *)
(* with the content `text`), a directory (with the entries `tree`) or      *)
(* nothing.                                                                *)
(***************************************************************************)
InitCli ==
    /\ hashSeed = 0
    /\ target \in {"file", "dir", "none"}
    /\ \/ target = "file" /\ file \in {f \in Files : f.exists}
          /\ text \in DirTexts \cup {RawText(BrokenYaml)} /\ tree = {}
       \/ target = "dir" /\ file = NoFile /\ text = RawText(<<>>) /\ tree \in Trees
       \/ target = "none" /\ file \in {f \in Files : ~f.exists}
          /\ text = RawText(<<>>) /\ tree = {}
    /\ prevCall = NoCallYet
    /\ lastCall = NoCallYet
    /\ parsed = NoCall
    /\ verrs = NoCall
    /\ fileCall = NoCallYet
    /\ NoCoercion
    /\ dumped = NoCall
    /\ dirCall = NoCallYet
    /\ cliCall = NotRun
    /\ NoCalls

\* the path argument of the command line
PathArgument == IF target = "dir" THEN Dirpath ELSE <<file.name>>

\* the file system as main sees it
FileSystem == [kind |-> target, content |-> text, tree |-> tree]

\* the user runs validate.py [--strict] [--json] path
Main(strict, json_output) ==
    /\ cliCall' = [strict |-> strict, json_output |-> json_output,
                   out |-> main(PathArgument, strict, json_output, FileSystem, hashSeed)]
    /\ UNCHANGED <<hashSeed, text, prevCall, lastCall, parsed, verrs, file, fileCall>>
    /\ UNCHANGED <<coerceVars, dumped, tree, dirCall, target, callVars>>

NextCli == \E strict \in BOOLEAN, json_output \in BOOLEAN : Main(strict, json_output)

SpecCli == InitCli /\ [][NextCli]_vars

(***************************************************************************)
(* The state machine of the callers of one process: each caller makes one  *)
(* call of an entry point on an input of its own.  A call begins and ends  *)
(* in two steps, so the calls of different callers overlap in every order. *)
(***************************************************************************)
Invocation(op, content, strict, filepath, entries) ==
    [op |-> op, text |-> content, strict |-> strict, file |-> filepath, tree |-> entries]

\* the well-formed document, a document in an unsupported language and a
\* blank text
CallTexts ==
    <<DumpText(Build(Base)),
      DumpText(Build([Base EXCEPT ![<<"meta", "language">>] = VStr(<<"b", "f">>)])),
      RawText(<<" ">>)>>

\* the calls a caller chooses from
Invocations ==
    <<Invocation("parse_rune_string", CallTexts[1], FALSE, NoFile, {}),
      Invocation("parse_rune_string", CallTexts[2], FALSE, NoFile, {}),
      Invocation("parse_rune_string", CallTexts[3], FALSE, NoFile, {}),
      Invocation("validate", CallTexts[1], FALSE, NoFile, {}),
      Invocation("validate", CallTexts[2], FALSE, NoFile, {}),
      Invocation("validate_spec", CallTexts[1], FALSE, NoFile, {}),
      Invocation("validate_spec", CallTexts[1], TRUE, NoFile, {}),
      Invocation("validate_spec", CallTexts[2], FALSE, NoFile, {}),
      Invocation("validate_spec", CallTexts[3], TRUE, NoFile, {}),
      Invocation("validate_file", CallTexts[1], FALSE,
                 [exists |-> TRUE, name |-> <<"a", ".", "y", "a", "m", "l">>], {}),
      Invocation("validate_file", CallTexts[3], TRUE,
                 [exists |-> TRUE, name |-> <<"a", ".", "r", "u", "n", "e">>], {}),
      Invocation("validate_directory", RawText(<<>>), FALSE, NoFile,
                 {Entry(<<<<"a", ".", "r", "u", "n", "e">>>>, "file", CallTexts[1]),
                  Entry(<<<<"b", ".", "r", "u", "n", "e">>>>, "file", CallTexts[2])}),
      Invocation("validate_directory", RawText(<<>>), TRUE, NoFile, {})>>

\* the call inv made in a process whose _default_parser has the attributes
\* self: the attributes after the call, and the outcome.  Only
\* parse_rune_string goes through _default_parser; validate is called on the
\* spec that parsing inv.text gives.
Invoke(self, inv, seed) ==
    CASE inv.op = "parse_rune_string" -> parse_rune_string(self, inv.text)
      [] inv.op = "validate" ->
            [self |-> self, out |-> Return(validate(parse_string(inv.text).ret))]
      [] inv.op = "validate_spec" ->
            [self |-> self, out |-> validate_spec(inv.text, inv.strict, seed)]
      [] inv.op = "validate_file" ->
            [self |-> self, out |-> validate_file(inv.file, inv.text, inv.strict, seed)]
      [] inv.op = "validate_directory" ->
            [self |-> self,
             out |-> validate_directory(Dirpath, inv.tree, inv.strict, seed)]

InitCalls ==
    /\ hashSeed \in Seeds
    /\ text = RawText(<<>>)
    /\ prevCall = NoCallYet
    /\ lastCall = NoCallYet
    /\ parsed = NoCall
    /\ verrs = NoCall
    /\ file = NoFile
    /\ fileCall = NoCallYet
    /\ NoCoercion
    /\ dumped = NoCall
    /\ NoDirectory
    /\ NoCalls

\* caller c enters the call number k
Begin(c, k) ==
    /\ calls[c].pc = "idle"
    /\ calls' = [calls EXCEPT ![c] = [pc |-> "running", k |-> k, out |-> NoCall]]
    /\ UNCHANGED <<hashSeed, text, prevCall, lastCall, parsed, verrs, file, fileCall>>
    /\ UNCHANGED <<coerceVars, dumped, dirVars, defaultParser>>

\* the call of caller c runs and returns or raises
End(c) ==
    /\ calls[c].pc = "running"
    /\ \E done \in {Invoke(defaultParser, Invocations[calls[c].k], hashSeed)} :
           /\ defaultParser' = done.self
           /\ calls' = [calls EXCEPT ![c] = [pc |-> "done", k |-> @.k, out |-> done.out]]
    /\ UNCHANGED <<hashSeed, text, prevCall, lastCall, parsed, verrs, file, fileCall>>
    /\ UNCHANGED <<coerceVars, dumped, dirVars>>

NextCalls ==
    \/ \E c \in Callers, k \in 1..Len(Invocations) : Begin(c, k)
    \/ \E c \in Callers : End(c)

SpecCalls == InitCalls /\ [][NextCalls]_vars

(***************************************************************************)
(* The state machine of the coercion: the caller hands a decoded value to  *)
(* _to_str_list, and may hand the returned list to it again.               *)
(***************************************************************************)
\* the elements of the lists
CoerceItems ==
    {VNone, VStr(<<>>), VStr(<<" ">>), VStr(<<"a">>), VStr(<<" ", "a", "\n">>), VStr(<<"b", " ", "c">>),
     VInt(0), VInt(12), VBool(TRUE), VList(<<VStr(<<" ", "b">>)>>)}

CoerceValues ==
    CoerceItems \cup {VBool(FALSE), VDict(<<>>), VDict(<<<<"time", VStr(<<" ", "a">>)>>>>)}
    \cup {VList(xs) : xs \in UNION {[1..n -> CoerceItems] : n \in 0..MaxItems}}

InitCoerce ==
    /\ hashSeed = 0
    /\ text = RawText(<<>>)
    /\ prevCall = NoCallYet
    /\ lastCall = NoCallYet
    /\ parsed = NoCall
    /\ verrs = NoCall
    /\ file = NoFile
    /\ fileCall = NoCallYet
    /\ given \in CoerceValues
    /\ coerced = NoCall
    /\ prevCoerced = NoCall
    /\ dumped = NoCall
    /\ NoDirectory
    /\ NoCalls

\* the caller runs _to_str_list(given)
Coerce ==
    /\ coerced' = Return(_to_str_list(given))
    /\ UNCHANGED <<given, prevCoerced>>
    /\ UNCHANGED <<hashSeed, text, prevCall, lastCall, parsed, verrs, file, fileCall>>
    /\ UNCHANGED <<dumped, dirVars, callVars>>

\* the caller takes the returned list as the next value
CoerceAgain ==
    /\ coerced.exc = ""
    /\ given' = StrList(coerced.ret)
    /\ prevCoerced' = coerced
    /\ coerced' = NoCall
    /\ UNCHANGED <<hashSeed, text, prevCall, lastCall, parsed, verrs, file, fileCall>>
    /\ UNCHANGED <<dumped, dirVars, callVars>>

NextCoerce ==
    \/ Coerce
    \/ CoerceAgain

SpecCoerce == InitCoerce /\ [][NextCoerce]_vars

(***************************************************************************)
(* The state machine of an edited document: in one process the caller      *)
(* validates a document in non-strict mode, changes its optional fields    *)
(* and validates it again.                                                 *)
(***************************************************************************)
\* the entries of a mapping outside OPTIONAL_FIELDS, in document order
OutsideOptional(data) ==
    LET Kept(kv) == \A i \in 1..Len(OPTIONAL_FIELDS) : kv[1] # OPTIONAL_FIELDS[i]
    IN  SelectSeq(data.kvs, Kept)

\* two documents that differ at most in the presence or the values of the
\* optional fields
SameButOptional(t, u) ==
    /\ t.form = "dump" /\ t.doc.t = "dict"
    /\ u.form = "dump" /\ u.doc.t = "dict"
    /\ OutsideOptional(t.doc) = OutsideOptional(u.doc)

InitOptional ==
    /\ hashSeed \in Seeds
    /\ text \in {t \in Texts : t.form = "dump" /\ t.doc.t = "dict"}
    /\ prevCall = NoCallYet
    /\ lastCall = NoCallYet
    /\ parsed = NoCall
    /\ verrs = NoCall
    /\ file = NoFile
    /\ fileCall = NoCallYet
    /\ NoCoercion
    /\ dumped = NoCall
    /\ NoDirectory
    /\ NoCalls

\* after the first call the caller adds, removes or changes optional fields
EditOptional ==
    /\ lastCall # NoCallYet
    /\ prevCall = NoCallYet
    /\ \E t \in Texts : t # text /\ SameButOptional(t, text) /\ text' = t
    /\ UNCHANGED <<hashSeed, prevCall, lastCall, parsed, verrs, file, fileCall>>
    /\ UNCHANGED <<coerceVars, dumped, dirVars, callVars>>

NextOptional ==
    \/ ValidateText(FALSE)
    \/ EditOptional

SpecOptional == InitOptional /\ [][NextOptional]_vars

(***************************************************************************)
(* The state machine of the two modes: one process, whose caller validates *)
(* a text in either mode, again and again.                                 *)
(***************************************************************************)
NextModes == \E strict \in BOOLEAN : ValidateText(strict)

SpecModes == Init /\ [][NextModes]_vars

(***************************************************************************)
(* Properties.                                                             *)
(***************************************************************************)
Called(c) == c.out.exc # "-"
Returned(c) == c.out.exc = ""
Report(c) == c.out.ret

\* the text decodes, and to a mapping
IsMappingText(t) == safe_load(t).exc = "" /\ safe_load(t).ret.t = "dict"

\* the decoded root of a text that decodes
Root(t) == safe_load(t).ret

\* the text has no character that is not whitespace
OnlyWhitespace(t) ==
    t.form = "chars" /\ \A i \in 1..Len(t.chars) : t.chars[i] \in Whitespace

NonBlankString(x) == x.t = "str" /\ \E i \in 1..Len(x.s) : x.s[i] \notin Whitespace

NonEmptyList(x) == x.t = "list" /\ Len(x.xs) > 0

RECURSIVE IsSubseq(_, _)
\* a is b with some entries left out
IsSubseq(a, b) ==
    IF a = <<>> THEN TRUE
    ELSE IF b = <<>> THEN FALSE
    ELSE IF Head(a) = Head(b) THEN IsSubseq(Tail(a), Tail(b))
    ELSE IsSubseq(a, Tail(b))

\* C1 as stated: for a text that fails to decode or whose root is not a
\* mapping, validate_spec returns valid=false, exactly one error, no warning,
\* no suggestion and an empty field_summary.
C1_NoSuggestion ==
    (Called(lastCall) /\ ~IsMappingText(text)) =>
        /\ Returned(lastCall)
        /\ Report(lastCall).valid = FALSE
        /\ Len(Report(lastCall).errors) = 1
        /\ Report(lastCall).warnings = <<>>
        /\ Report(lastCall).suggestions = <<>>
        /\ Report(lastCall).field_summary = <<>>

\* C1 amended: for a text that fails to decode or whose root is not a
\* mapping, validate_spec returns, in both modes, valid=false, exactly one
\* error, no warning, exactly one suggestion and an empty field_summary.
C1_ShortCircuit ==
    (Called(lastCall) /\ ~IsMappingText(text)) =>
        /\ Returned(lastCall)
        /\ Report(lastCall).valid = FALSE
        /\ Len(Report(lastCall).errors) = 1
        /\ Report(lastCall).warnings = <<>>
        /\ Len(Report(lastCall).suggestions) = 1
        /\ Report(lastCall).field_summary = <<>>

C1_Witness ==
    /\ Returned(lastCall) /\ lastCall.strict
    /\ Returned(prevCall) /\ ~prevCall.strict
    /\ safe_load(text).exc = "" /\ Root(text).t = "list"

\* C2: for a text that decodes to a mapping, validate_spec returns a full
\* report and never raises, whatever the types of the values.
C2_NeverRaises ==
    (Called(lastCall) /\ IsMappingText(text)) =>
        /\ Returned(lastCall)
        /\ "summary" \in DOMAIN Report(lastCall)

\* C3: two calls of validate_spec on the same text with the same strict flag
\* return identical reports, in the same process or in two processes.
C3_IdenticalReports ==
    (Called(prevCall) /\ Called(lastCall) /\ prevCall.strict = lastCall.strict) =>
        /\ prevCall.out.exc = lastCall.out.exc
        /\ Returned(lastCall) => Report(prevCall) = Report(lastCall)

\* the six required fields are present, SIGNATURE and INTENT are non-blank
\* strings, BEHAVIOR and TESTS are non-empty lists
RequiredWellFormed(data) ==
    /\ \A i \in 1..Len(REQUIRED_FIELDS) : HasKey(data, REQUIRED_FIELDS[i])
    /\ Item(data, "meta").t = "dict"
    /\ HasKey(Item(data, "meta"), "name")
    /\ HasKey(Item(data, "meta"), "language")
    /\ NonBlankString(Item(data, "SIGNATURE"))
    /\ NonBlankString(Item(data, "INTENT"))
    /\ NonEmptyList(Item(data, "BEHAVIOR"))
    /\ NonEmptyList(Item(data, "TESTS"))

\* C4: for a document with the six required fields present, non-blank
\* SIGNATURE and INTENT strings and non-empty BEHAVIOR and TESTS lists,
\* validate_spec(strict=False) returns errors == [] and valid=true.
C4_NoErrors ==
    (Called(lastCall) /\ ~lastCall.strict /\ IsMappingText(text)
        /\ RequiredWellFormed(Root(text))) =>
        /\ Returned(lastCall)
        /\ Report(lastCall).errors = <<>>
        /\ Report(lastCall).valid = TRUE

\* C5: in every report returned by validate_spec or validate_file, valid is
\* true exactly when errors is empty; the extra warning of validate_file
\* leaves valid as validate_spec computes it.
C5_ValidIffNoErrors ==
    /\ Returned(lastCall) =>
          (Report(lastCall).valid <=> Report(lastCall).errors = <<>>)
    /\ Returned(fileCall) =>
          (Report(fileCall).valid <=> Report(fileCall).errors = <<>>)
    /\ (Returned(lastCall) /\ Returned(fileCall)) =>
          Report(fileCall).valid = Report(lastCall).valid

C5_Witness ==
    /\ Returned(fileCall) /\ Report(fileCall).valid
    /\ Report(fileCall).warnings # <<>>
    /\ Returned(lastCall) /\ Report(lastCall).warnings = <<>>

\* C6: every warning of validate_spec(text, strict=False) is also a warning
\* of validate_spec(text, strict=True), in the same relative order.
C6_StrictMonotonic ==
    (Returned(prevCall) /\ Returned(lastCall) /\ prevCall.strict # lastCall.strict) =>
        LET lax == IF prevCall.strict THEN lastCall ELSE prevCall
            strict == IF prevCall.strict THEN prevCall ELSE lastCall
        IN  IsSubseq(Report(lax).warnings, Report(strict).warnings)

C6_Witness ==
    /\ Returned(prevCall) /\ ~prevCall.strict
    /\ Returned(lastCall) /\ lastCall.strict
    /\ IsMappingText(text)
    /\ Len(Report(prevCall).warnings) >= 2
    /\ Len(Report(lastCall).warnings) > Len(Report(prevCall).warnings)

\* C7: when exactly one required top-level key X is absent and the other
\* required fields are well formed, the defect is recorded once: errors is
\* exactly "Missing required field: X".
C7_OneEntry ==
    \A i \in 1..Len(REQUIRED_FIELDS) :
        (Called(lastCall)
            /\ text = DumpText(Build([Base EXCEPT ![<<REQUIRED_FIELDS[i]>>] = Absent]))) =>
            /\ Returned(lastCall)
            /\ Report(lastCall).errors =
                  <<Msg("Missing required field: {field}", KeyChars(REQUIRED_FIELDS[i]))>>
            /\ ~lastCall.strict =>
                  /\ Report(lastCall).warnings = <<>>
                  /\ Report(lastCall).suggestions = <<>>

\* a complete document whose meta.language is a non-empty string outside the
\* supported set
UnsupportedLanguageDoc(data) ==
    /\ RequiredWellFormed(data)
    /\ NonBlankString(Item(Item(data, "meta"), "name"))
    /\ Item(Item(data, "meta"), "language").t = "str"
    /\ Item(Item(data, "meta"), "language").s # <<>>
    /\ Item(Item(data, "meta"), "language").s \notin SUPPORTED_LANGUAGES

\* C8: for such a document validate_spec returns valid=true, no error and a
\* warning that carries the language, while RUNEParser.validate on the parsed
\* spec returns an error that carries the language.
C8_TiersDisagree ==
    (IsMappingText(text) /\ UnsupportedLanguageDoc(Root(text))) =>
        LET lang == Item(Item(Root(text), "meta"), "language").s
        IN  /\ Called(lastCall) =>
                  /\ Returned(lastCall)
                  /\ Report(lastCall).valid = TRUE
                  /\ Report(lastCall).errors = <<>>
                  /\ \E i \in 1..Len(Report(lastCall).warnings) :
                        /\ Report(lastCall).warnings[i].a = lang
                        /\ Report(lastCall).warnings[i].m =
                              "Unrecognized language '{lang}' (supported: {sorted})"
            /\ parsed.exc # "-" => parsed.exc = ""
            /\ verrs.exc = "" =>
                  \E i \in 1..Len(verrs.ret) :
                      verrs.ret[i] = Msg("Unsupported language: {language}", lang)

C8_Witness ==
    /\ IsMappingText(text) /\ UnsupportedLanguageDoc(Root(text))
    /\ Returned(lastCall)
    /\ verrs.exc = ""

\* C9: parse_string fails exactly when the text is empty or whitespace-only
\* (checked first), fails to decode, or decodes to a root that is not a
\* mapping, each with its own message, and returns a spec otherwise.
C9_ParseFailures ==
    parsed.exc # "-" =>
        IF OnlyWhitespace(text)
        THEN /\ parsed.exc = "ParseError"
             /\ parsed.ret = Msg("Spec content is empty", <<>>)
        ELSE IF safe_load(text).exc = "YAMLError"
        THEN /\ parsed.exc = "ParseError"
             /\ parsed.ret = Msg("Invalid YAML: {exc}", ScannerMessage)
        ELSE IF Root(text).t # "dict"
        THEN /\ parsed.exc = "ParseError"
             /\ parsed.ret = Msg("Expected YAML mapping, got {type}", TypeName(Root(text)))
        ELSE /\ parsed.exc = ""
             /\ parsed.ret.raw = Root(text)

C9_Witness ==
    /\ parsed.exc = "ParseError"
    /\ OnlyWhitespace(text) /\ text.chars # <<>>

\* the field of a built spec that holds the top-level list key k
ListField(spec, k) ==
    CASE k = "BEHAVIOR" -> spec.behavior
      [] k = "TESTS" -> spec.tests
      [] k = "CONSTRAINTS" -> spec.constraints
      [] k = "EDGE_CASES" -> spec.edge_cases
      [] k = "DEPENDENCIES" -> spec.dependencies
      [] k = "EXAMPLES" -> spec.examples

\* the RUNEMeta built from nothing
DefaultMeta ==
    [name |-> <<>>, language |-> <<>>, version |-> <<"1", ".", "0">>, tags |-> <<>>,
     agent |-> <<>>, mcp_server |-> <<>>, extra |-> <<>>]

\* C10: for every decoded mapping parse_string returns a spec: a meta or
\* COMPLEXITY that is absent or not a mapping counts as empty, the absent
\* name, language, RUNE, SIGNATURE and INTENT are "", the absent version is
\* "1.0", and each list field is the coercion of the value under its key.
C10_BuildNeverFails ==
    (parsed.exc # "-" /\ IsMappingText(text)) =>
        LET data == Root(text)
            meta == Get(data, "meta", VNone)
            complexity == Get(data, "COMPLEXITY", VNone)
            spec == parsed.ret
        IN  /\ parsed.exc = ""
            /\ meta.t # "dict" => spec.meta = DefaultMeta
            /\ complexity.t # "dict" => spec.complexity = [time |-> <<>>, space |-> <<>>]
            /\ (meta.t = "dict" /\ ~HasKey(meta, "name")) => spec.meta.name = <<>>
            /\ (meta.t = "dict" /\ ~HasKey(meta, "language")) => spec.meta.language = <<>>
            /\ (meta.t = "dict" /\ ~HasKey(meta, "version")) => spec.meta.version = <<"1", ".", "0">>
            /\ ~HasKey(data, "RUNE") => spec.rune = <<>>
            /\ ~HasKey(data, "SIGNATURE") => spec.signature = <<>>
            /\ ~HasKey(data, "INTENT") => spec.intent = <<>>
            /\ \A k \in LIST_FIELDS :
                  ListField(spec, k) = _to_str_list(Get(data, k, VNone))

C10_Witness ==
    /\ parsed.exc = "" /\ IsMappingText(text)
    /\ HasKey(Root(text), "meta") /\ Item(Root(text), "meta").t = "str"
    /\ parsed.ret.meta.version = <<"1", ".", "0">>

\* the requirements of the structural tier, in the order they are checked
Requirements ==
    <<"name", "language", "rune", "signature", "intent", "behavior", "tests">>

\* the string has no character that is not whitespace
Blank(s) == \A i \in 1..Len(s) : s[i] \in Whitespace

\* the spec violates the requirement r
Violated(spec, r) ==
    CASE r = "name" -> Len(spec.meta.name) = 0
      [] r = "language" ->
            Len(spec.meta.language) = 0 \/ spec.meta.language \notin SUPPORTED_LANGUAGES
      [] r = "rune" -> Len(spec.rune) = 0
      [] r = "signature" -> Blank(spec.signature)
      [] r = "intent" -> Blank(spec.intent)
      [] r = "behavior" -> Len(spec.behavior) = 0
      [] r = "tests" -> Len(spec.tests) = 0

\* the requirement an error message of the structural tier is about
About(err) ==
    CASE err.m = "meta.name is required" -> "name"
      [] err.m = "meta.language is required" -> "language"
      [] err.m = "Unsupported language: {language}" -> "language"
      [] err.m = "RUNE field is required" -> "rune"
      [] err.m = "SIGNATURE is required" -> "signature"
      [] err.m = "INTENT is required" -> "intent"
      [] err.m = "BEHAVIOR must have at least one entry" -> "behavior"
      [] err.m = "TESTS must have at least one entry" -> "tests"
      [] OTHER -> "?"

\* C11: RUNEParser.validate returns one error per violated requirement and
\* no other, in the order name, language, rune, signature, intent, behavior,
\* tests (so an empty list exactly when no requirement is violated, and never
\* two errors about the language).
C11_OnePerViolation ==
    verrs.exc = "" =>
        LET spec == parsed.ret
            IsViolated(r) == Violated(spec, r)
        IN  /\ [i \in 1..Len(verrs.ret) |-> About(verrs.ret[i])]
                  = SelectSeq(Requirements, IsViolated)
            /\ verrs.ret = <<>> <=> \A i \in 1..Len(Requirements) :
                                      ~Violated(spec, Requirements[i])

\* an unsupported language next to another violated requirement
C11_Witness ==
    /\ verrs.exc = ""
    /\ Len(verrs.ret) >= 2
    /\ \E i \in 1..Len(verrs.ret) : verrs.ret[i].m = "Unsupported language: {language}"
    /\ verrs.ret[Len(verrs.ret)].m = "TESTS must have at least one entry"

\* t is s without its leading and trailing whitespace
IsTrimOf(t, s) ==
    /\ t # <<>> => t[1] \notin Whitespace /\ t[Len(t)] \notin Whitespace
    /\ \E i \in 0..Len(s) :
          /\ i + Len(t) <= Len(s)
          /\ t = SubSeq(s, i + 1, i + Len(t))
          /\ Blank(SubSeq(s, 1, i))
          /\ Blank(SubSeq(s, i + Len(t) + 1, Len(s)))

\* C12: _to_str_list returns [] for None; for a list the trimmed str() of its
\* elements that are not None, in their order (never more entries than the
\* list has); for a string the one-element list of the trimmed string, or []
\* when it is blank; for another scalar the one-element list of its str().
C12_Coercion ==
    coerced.exc = "" =>
        LET out == coerced.ret
            NotNone(item) == item.t # "NoneType"
            kept == SelectSeq(given.xs, NotNone)
        IN  CASE given.t = "NoneType" -> out = <<>>
              [] given.t = "list" ->
                    /\ Len(out) = Len(kept)
                    /\ Len(out) <= Len(given.xs)
                    /\ \A i \in 1..Len(out) : IsTrimOf(out[i], PyStr(kept[i]))
              [] given.t = "str" ->
                    IF Blank(given.s) THEN out = <<>>
                    ELSE Len(out) = 1 /\ IsTrimOf(out[1], given.s)
              [] given.t \in {"int", "bool"} -> out = <<PyStr(given)>>
              [] OTHER -> TRUE

\* a list with a null element between a blank and an integer element
C12_Witness ==
    /\ coerced.exc = ""
    /\ given = VList(<<VStr(<<" ">>), VNone>>)
    /\ coerced.ret = << <<>> >>

\* C13: handing the list _to_str_list returned to _to_str_list again returns
\* the same list, blank entries included.
C13_Idempotent ==
    (prevCoerced.exc = "" /\ coerced.exc = "") => coerced.ret = prevCoerced.ret

\* the second coercion of a list that holds a blank entry
C13_Witness ==
    /\ prevCoerced.exc = "" /\ coerced.exc = ""
    /\ \E i \in 1..Len(coerced.ret) : coerced.ret[i] = <<>>
    /\ Len(coerced.ret) = 2

\* the fields to_dict writes only when they hold something
OptionalListKeys == <<"CONSTRAINTS", "EDGE_CASES", "DEPENDENCIES", "EXAMPLES">>

\* C14: to_dict of a spec built from a mapping is a mapping whose RUNE is the
\* spec's rune, whose meta.language is the spec's meta.language and whose
\* TESTS list has test_count entries; the optional list fields, COMPLEXITY
\* and its time and space, and meta's tags, agent and mcp_server occur in it
\* exactly when the spec holds a non-empty value for them.
C14_RoundTrip ==
    dumped.exc = "" =>
        LET spec == parsed.ret
            out == dumped.ret
            meta == Item(out, "meta")
        IN  /\ out.t = "dict" /\ meta.t = "dict"
            /\ Item(out, "RUNE").t = "str" /\ Item(out, "RUNE").s = spec.rune
            /\ Item(meta, "language").t = "str"
            /\ Item(meta, "language").s = spec.meta.language
            /\ Item(out, "TESTS").t = "list"
            /\ Len(Item(out, "TESTS").xs) = test_count(spec)
            /\ \A i \in 1..Len(OptionalListKeys) :
                  HasKey(out, OptionalListKeys[i])
                      <=> ListField(spec, OptionalListKeys[i]) # <<>>
            /\ HasKey(out, "COMPLEXITY")
                  <=> (spec.complexity.time # <<>> \/ spec.complexity.space # <<>>)
            /\ HasKey(out, "COMPLEXITY") =>
                  /\ HasKey(Item(out, "COMPLEXITY"), "time") <=> spec.complexity.time # <<>>
                  /\ HasKey(Item(out, "COMPLEXITY"), "space") <=> spec.complexity.space # <<>>
            /\ HasKey(meta, "tags") <=> spec.meta.tags # <<>>
            /\ HasKey(meta, "agent") <=> spec.meta.agent # <<>>
            /\ HasKey(meta, "mcp_server") <=> spec.meta.mcp_server # <<>>

\* the spec of a document whose TESTS list holds a null entry, written back
C14_Witness ==
    /\ dumped.exc = ""
    /\ IsMappingText(text)
    /\ Get(Root(text), "TESTS", VNone) = VList(<<VInt(1), VNone, VStr(<<" ", "t", " ">>)>>)
    /\ Len(Item(dumped.ret, "TESTS").xs) = 2
    /\ ~HasKey(dumped.ret, "EXAMPLES")

\* C15: validate_file raises FileNotFoundError for a path that does not
\* exist; for a file whose content is empty or only whitespace it returns,
\* in both modes and for every suffix, valid=false with the single error
\* "File is empty" and no warning: the report of the decoder path (a root
\* that is not a mapping, an extension warning) is never what comes back.
C15_MissingOrEmpty ==
    Called(fileCall) =>
        /\ ~file.exists =>
              /\ fileCall.out.exc = "FileNotFoundError"
              /\ fileCall.out.ret.a = file.name
        /\ (file.exists /\ OnlyWhitespace(text)) =>
              /\ Returned(fileCall)
              /\ Report(fileCall).valid = FALSE
              /\ Report(fileCall).errors = <<Msg("File is empty", <<>>)>>
              /\ Report(fileCall).warnings = <<>>

\* a strict call on a whitespace-only file whose suffix is not .rune
C15_Witness ==
    /\ Returned(fileCall) /\ fileCall.strict
    /\ file.exists /\ PathSuffix(file.name) # <<".", "r", "u", "n", "e">>
    /\ OnlyWhitespace(text) /\ text.chars # <<>>
    /\ Report(fileCall).errors = <<Msg("File is empty", <<>>)>>

\* the files under the directory whose name matches *.rune, by increasing path
RuneFiles == sorted({e \in tree : e.kind = "file" /\ MatchesRune(e.parts[Len(e.parts)])})

\* validate_file on one file of the directory, alone
Alone(entry, strict) ==
    validate_file([exists |-> TRUE, name |-> PathStr(Dirpath \o entry.parts)],
                  entry.content, strict, hashSeed)

\* C16 as stated: validate_directory returns one report per file named
\* *.rune under the directory, by increasing path, each the report
\* validate_file gives for that file alone, and the empty list (never an
\* error) when no file matches.
C16_OneReportPerFile ==
    Called(dirCall) =>
        /\ Returned(dirCall)
        /\ Len(Report(dirCall)) = Len(RuneFiles)
        /\ \A i \in 1..Len(RuneFiles) :
              /\ Alone(RuneFiles[i], dirCall.strict).exc = ""
              /\ Report(dirCall)[i] = Alone(RuneFiles[i], dirCall.strict).ret

\* the reports of an outcome: none when it is an exception
ReportsOf(out) == IF out.exc = "" THEN out.ret ELSE <<>>

\* the reports the run of the command line worked with
Produced ==
    ReportsOf(IF target = "file"
              THEN Scanned(<<validate_file(file, text, cliCall.strict, hashSeed)>>)
              ELSE IF target = "dir"
              THEN validate_directory(Dirpath, tree, cliCall.strict, hashSeed)
              ELSE Return(<<>>))

\* the number of printed lines with the format m
CountLines(stdout, m) == Cardinality({i \in 1..Len(stdout) : stdout[i].m = m})

\* C17: the exit status is 0 exactly when at least one report was produced
\* and every produced report is valid, and 1 otherwise: for an invalid
\* report, a directory without a matching file and a path that names
\* nothing; without --json the last line holds the numbers of passed and
\* failed reports, which are the numbers of PASS and FAIL lines and add up
\* to the number of reports.
C17_ExitCode ==
    cliCall.out.exc # "-" =>
        LET out == cliCall.out
            status == ExitStatus(out)
            produced == Produced
        IN  /\ status = 0 <=>
                  (Len(produced) >= 1 /\ \A i \in 1..Len(produced) : produced[i].valid)
            /\ status # 0 => status = 1
            /\ (target = "dir" /\ RuneFiles = <<>>) => status = 1
            /\ target = "none" => out.exc = "" /\ status = 1
            /\ (out.exc = "" /\ ~cliCall.json_output /\ Len(produced) >= 1) =>
                  LET stdout == out.ret.stdout
                      counts == stdout[Len(stdout)].a
                  IN  /\ stdout[Len(stdout)].m =
                            "Results: {passed} passed, {failed} failed, {total} total"
                      /\ counts[1] + counts[2] = counts[3]
                      /\ counts[3] = Len(produced)
                      /\ counts[1] = CountLines(stdout, "  PASS  {filepath}")
                      /\ counts[2] = CountLines(stdout, "  FAIL  {filepath}")

\* a directory with a valid and an invalid file, reported without --json
C17_Witness ==
    /\ cliCall.out.exc = "" /\ ~cliCall.json_output /\ target = "dir"
    /\ cliCall.out.ret.code = 1
    /\ Len(cliCall.out.ret.stdout) > 2
    /\ cliCall.out.ret.stdout[Len(cliCall.out.ret.stdout)].a = <<1, 1, 2>>

SummaryWith(report, sep) ==
    (IF report.valid
     THEN <<"V", "a", "l", "i", "d", " ", "R", "U", "N", "E", " ", "s", "p", "e", "c", "i", "f", "i", "c", "a", "t", "i", "o", "n">>
     ELSE <<"I", "n", "v", "a", "l", "i", "d", ":", " ">> \o DigitsOf(Len(report.errors)) \o <<" ", "e", "r", "r", "o", "r", "(", "s", ")">>)
    \o (IF Len(report.warnings) > 0
        THEN sep \o DigitsOf(Len(report.warnings)) \o <<" ", "w", "a", "r", "n", "i", "n", "g", "(", "s", ")">>
        ELSE <<>>)

\* C19 as stated: the summary of a report of validate_spec on a mapping is
\* "Valid RUNE specification" or "Invalid: N error(s)", followed by
\* ", M warning(s)" exactly when there are warnings.
C19_CommaSeparator ==
    (Returned(lastCall) /\ IsMappingText(text)) =>
        Report(lastCall).summary = SummaryWith(Report(lastCall), <<",", " ">>)

\* C19, amended: the summary of a report of validate_spec on a mapping is
\* "Valid RUNE specification" when valid and "Invalid: N error(s)" otherwise,
\* N the number of errors, followed by ". M warning(s)", M the number of
\* warnings, exactly when there are warnings.
C19_Summary ==
    (Returned(lastCall) /\ IsMappingText(text)) =>
        Report(lastCall).summary = SummaryWith(Report(lastCall), <<".", " ">>)

\* an invalid report with errors and a warning
C19_Witness ==
    /\ Returned(lastCall) /\ IsMappingText(text)
    /\ Len(Report(lastCall).errors) = 2
    /\ Report(lastCall).summary = <<"I", "n", "v", "a", "l", "i", "d", ":", " ", "2", " ", "e", "r", "r", "o", "r", "(", "s", ")", ".", " ", "1", " ", "w", "a", "r", "n", "i", "n", "g", "(", "s", ")">>

\* the messages of the checks made on the keys of meta
MetaSubChecks ==
    {"Missing required meta field: meta.{mf}",
     "Unrecognized language '{lang}' (supported: {sorted})",
     "meta.name '{name}' is not a valid identifier"}

\* C20 as stated: when the key meta is present and its value is a scalar, a
\* list or null, the report of validate_spec holds the error that meta must
\* be a mapping and valid is false, and no check on meta.name or
\* meta.language has left a message.
C20_MetaNotMapping ==
    (Returned(lastCall) /\ IsMappingText(text)
        /\ HasKey(Root(text), "meta") /\ Item(Root(text), "meta").t # "dict") =>
        /\ Report(lastCall).valid = FALSE
        /\ \E i \in 1..Len(Report(lastCall).errors) :
              Report(lastCall).errors[i] = Msg("meta must be a mapping (dict)", <<>>)
        /\ \A i \in 1..Len(Report(lastCall).errors) :
              Report(lastCall).errors[i].m \notin MetaSubChecks
        /\ \A i \in 1..Len(Report(lastCall).warnings) :
              Report(lastCall).warnings[i].m \notin MetaSubChecks

\* the value is a string shaped like an identifier
IdentifierString(x) == x.t = "str" /\ IsIdentifier(x.s)

\* the value is a list with an entry that holds both WHEN and THEN
HasWhenThenEntry(x) ==
    /\ x.t = "list"
    /\ \E i \in 1..Len(x.xs) :
          /\ x.xs[i].t = "str"
          /\ Contains(x.xs[i].s, <<"W", "H", "E", "N">>) /\ Contains(x.xs[i].s, <<"T", "H", "E", "N">>)

\* the document of scenario B, generalised: meta{name, language} with an
\* identifier-shaped name and a supported language, an identifier-shaped
\* RUNE, non-blank SIGNATURE and INTENT strings, a BEHAVIOR entry with both
\* WHEN and THEN, and at least three TESTS entries
FullSpec(data) ==
    /\ RequiredWellFormed(data)
    /\ IdentifierString(Item(Item(data, "meta"), "name"))
    /\ Item(Item(data, "meta"), "language").t = "str"
    /\ Item(Item(data, "meta"), "language").s \in SUPPORTED_LANGUAGES
    /\ IdentifierString(Item(data, "RUNE"))
    /\ HasWhenThenEntry(Item(data, "BEHAVIOR"))
    /\ Len(Item(data, "TESTS").xs) >= 3

\* the signature, trimmed, holds one of the signature keywords with the space
\* that follows it, in any letter case
HasSignatureKeyword(x) ==
    \E k \in {<<"d", "e", "f", " ">>, <<"f", "u", "n", "c", " ">>, <<"f", "u", "n", "c", "t", "i", "o", "n", " ">>, <<"c", "l", "a", "s", "s", " ">>, <<"f", "n", " ">>, <<"p", "u", "b", " ">>, <<"a", "s", "y", "n", "c", " ">>} :
        Contains(ToLower(Strip(x.s)), k)

\* the number of non-blank sentences of the intent, split at the full stops
SentenceCount(x) ==
    LET NonBlank(part) == ~Blank(part)
    IN  Len(SelectSeq(Split(x.s, "."), NonBlank))

\* C21 as stated: for every such document validate_spec(strict=False)
\* returns valid=true, errors == [] and warnings == [].
C21_NoWarnings ==
    (Called(lastCall) /\ ~lastCall.strict /\ IsMappingText(text) /\ FullSpec(Root(text))) =>
        /\ Returned(lastCall)
        /\ Report(lastCall).valid = TRUE
        /\ Report(lastCall).errors = <<>>
        /\ Report(lastCall).warnings = <<>>

\* C21 amended: for every such document whose trimmed SIGNATURE holds one of
\* the signature keywords followed by a space (in any letter case) and whose
\* INTENT has at most five non-blank sentences, validate_spec(strict=False) returns valid=true,
\* errors == [] and warnings == [].
C21_FullSpec ==
    (Called(lastCall) /\ ~lastCall.strict /\ IsMappingText(text) /\ FullSpec(Root(text))
        /\ HasSignatureKeyword(Item(Root(text), "SIGNATURE"))
        /\ SentenceCount(Item(Root(text), "INTENT")) <= 5) =>
        /\ Returned(lastCall)
        /\ Report(lastCall).valid = TRUE
        /\ Report(lastCall).errors = <<>>
        /\ Report(lastCall).warnings = <<>>

\* a non-strict call on a full document whose signature spells the keyword
\* in capitals
C21_Witness ==
    /\ Returned(lastCall) /\ ~lastCall.strict
    /\ IsMappingText(text) /\ FullSpec(Root(text))
    /\ Contains(Item(Root(text), "SIGNATURE").s, <<"D", "E", "F", " ">>)
    /\ SentenceCount(Item(Root(text), "INTENT")) <= 5
    /\ Report(lastCall).warnings = <<>>

\* the six required and the five optional fields
SummaryFields ==
    {"meta", "RUNE", "SIGNATURE", "INTENT", "BEHAVIOR", "TESTS",
     "CONSTRAINTS", "EDGE_CASES", "DEPENDENCIES", "EXAMPLES", "COMPLEXITY"}

\* the list-typed fields
ListTyped == {"BEHAVIOR", "TESTS", "CONSTRAINTS", "EDGE_CASES", "DEPENDENCIES", "EXAMPLES"}

\* the positions of the key k in a field_summary
EntriesOf(fs, k) == {i \in 1..Len(fs) : fs[i][1] = k}

\* field_summary[k]
SummaryEntry(fs, k) == fs[CHOOSE i \in 1..Len(fs) : fs[i][1] = k][2]

\* the field_summary has one entry for each of the eleven fields and no
\* other, and its present flag tells whether the key occurs in the document
PresenceRecorded(fs, data) ==
    /\ Len(fs) = Cardinality(SummaryFields)
    /\ \A k \in SummaryFields :
          /\ Cardinality(EntriesOf(fs, k)) = 1
          /\ SummaryEntry(fs, k).present = HasKey(data, k)

TestsMessages ==
    {"TESTS must be a list",
     "TESTS must have at least one test case",
     "TESTS has {len(tests)} cases (recommended minimum: 3)",
     "Add test cases for: happy path, boundary conditions, and error cases"}

\* the messages of a list that the TESTS rule has left
OfTestsRule(msgs) ==
    LET IsTests(msg) == msg.m \in TestsMessages
    IN  SelectSeq(msgs, IsTests)

\* C23: in a report of validate_spec on a mapping with the key TESTS, the
\* TESTS rule has left: for a value that is not a list, one error and
\* nothing else; for an empty list, one error and nothing else; for a list
\* of one or two entries, whatever they are, no error, one warning that
\* cites the number of entries and the recommended minimum of three, and
\* one suggestion; for a list of three or more entries, nothing.
C23_TestsRule ==
    (Returned(lastCall) /\ IsMappingText(text) /\ HasKey(Root(text), "TESTS")) =>
        LET tests == Item(Root(text), "TESTS")
            errors == OfTestsRule(Report(lastCall).errors)
            warnings == OfTestsRule(Report(lastCall).warnings)
            suggestions == OfTestsRule(Report(lastCall).suggestions)
        IN  CASE tests.t # "list" ->
                    /\ errors = <<Msg("TESTS must be a list", <<>>)>>
                    /\ warnings = <<>> /\ suggestions = <<>>
              [] tests.t = "list" /\ Len(tests.xs) = 0 ->
                    /\ errors = <<Msg("TESTS must have at least one test case", <<>>)>>
                    /\ warnings = <<>> /\ suggestions = <<>>
              [] tests.t = "list" /\ Len(tests.xs) \in {1, 2} ->
                    /\ errors = <<>>
                    /\ warnings = <<Msg("TESTS has {len(tests)} cases (recommended minimum: 3)",
                                        DigitsOf(Len(tests.xs)))>>
                    /\ suggestions = <<Msg("Add test cases for: happy path, boundary conditions, and error cases", <<>>)>>
              [] OTHER ->
                    errors = <<>> /\ warnings = <<>> /\ suggestions = <<>>

\* a valid report on a document with two test cases
C23_Witness ==
    /\ Returned(lastCall) /\ IsMappingText(text) /\ HasKey(Root(text), "TESTS")
    /\ Item(Root(text), "TESTS").t = "list" /\ Len(Item(Root(text), "TESTS").xs) = 2
    /\ Report(lastCall).valid
    /\ Len(OfTestsRule(Report(lastCall).warnings)) = 1

\* C24: two non-strict calls of validate_spec in one process, on two
\* documents that differ only in the presence or the values of the optional
\* fields, end the same way and return the same valid, errors, warnings,
\* suggestions and summary; only field_summary may differ.
C24_OptionalIgnored ==
    (Called(prevCall) /\ Called(lastCall)) =>
        /\ ~prevCall.strict /\ ~lastCall.strict
        /\ prevCall.out.exc = lastCall.out.exc
        /\ Returned(lastCall) =>
              /\ Report(prevCall).valid = Report(lastCall).valid
              /\ Report(prevCall).errors = Report(lastCall).errors
              /\ Report(prevCall).warnings = Report(lastCall).warnings
              /\ Report(prevCall).suggestions = Report(lastCall).suggestions
              /\ Report(prevCall).summary = Report(lastCall).summary

\* the first document had no EDGE_CASES, the second one has a list of them;
\* both reports carry the same warning
C24_Witness ==
    /\ Returned(prevCall) /\ Returned(lastCall)
    /\ ~SummaryEntry(Report(prevCall).field_summary, "EDGE_CASES").present
    /\ SummaryEntry(Report(lastCall).field_summary, "EDGE_CASES").present
    /\ Item(Root(text), "EDGE_CASES").t = "list"
    /\ Len(Report(lastCall).warnings) = 1

\* the six keys of meta that have a typed field
TypedMetaKeys == {"name", "language", "version", "tags", "agent", "mcp_server"}

\* the typed field of a built meta that holds the key k
TypedField(meta, k) ==
    CASE k = "name" -> meta.name
      [] k = "language" -> meta.language
      [] k = "version" -> meta.version
      [] k = "agent" -> meta.agent
      [] k = "mcp_server" -> meta.mcp_server

\* C25: after parse_string on a document whose meta is a mapping, every key
\* of meta outside the six typed ones is in extra, once, with the value of
\* the document, in document order; none of the six is in extra and extra
\* holds nothing else; each of the six that occurs populates its typed
\* field (the string form of its value; the coerced list for tags).
C25_MetaPartition ==
    (parsed.exc = "" /\ IsMappingText(text) /\ Get(Root(text), "meta", VNone).t = "dict") =>
        LET meta == Item(Root(text), "meta")
            built == parsed.ret.meta
            Other(kv) == kv[1] \notin TypedMetaKeys
        IN  /\ built.extra = SelectSeq(meta.kvs, Other)
            /\ \A i \in 1..Len(meta.kvs) :
                  \/ /\ meta.kvs[i][1] \in TypedMetaKeys
                     /\ \A j \in 1..Len(built.extra) : built.extra[j][1] # meta.kvs[i][1]
                     /\ IF meta.kvs[i][1] = "tags"
                        THEN built.tags = _to_str_list(meta.kvs[i][2])
                        ELSE TypedField(built, meta.kvs[i][1]) = PyStr(meta.kvs[i][2])
                  \/ /\ meta.kvs[i][1] \notin TypedMetaKeys
                     /\ Cardinality({j \in 1..Len(built.extra) :
                                        built.extra[j] = meta.kvs[i]}) = 1

\* a parsed document whose meta holds name, language and an author that is
\* an integer
C25_Witness ==
    /\ parsed.exc = "" /\ IsMappingText(text)
    /\ Get(Root(text), "meta", VNone).t = "dict"
    /\ Len(Item(Root(text), "meta").kvs) = 3
    /\ parsed.ret.meta.extra = << <<"author", VInt(1)>> >>
    /\ parsed.ret.meta.name = <<"a", "d", "d">>

\* s ends with the characters of t
EndsWith(s, t) == Len(s) >= Len(t) /\ SubSeq(s, Len(s) - Len(t) + 1, Len(s)) = t

\* C26 as stated: in every report returned by validate_file whose warnings
\* list is not empty, the extension warning included, the summary states
\* a number of warnings equal to the length of that list.
C26_SummaryAgrees ==
    (Returned(fileCall) /\ Report(fileCall).warnings # <<>>) =>
        /\ "summary" \in DOMAIN Report(fileCall)
        /\ EndsWith(Report(fileCall).summary,
                    DigitsOf(Len(Report(fileCall).warnings)) \o <<" ", "w", "a", "r", "n", "i", "n", "g", "(", "s", ")">>)

\* C27: two calls of validate_spec in one process on the same text, one
\* strict and one not, end the same way and return the same valid, errors,
\* suggestions and field_summary.
C27_StrictOnlyWarnings ==
    (Called(prevCall) /\ Called(lastCall) /\ prevCall.strict # lastCall.strict) =>
        /\ prevCall.out.exc = lastCall.out.exc
        /\ Returned(lastCall) =>
              /\ Report(prevCall).valid = Report(lastCall).valid
              /\ Report(prevCall).errors = Report(lastCall).errors
              /\ Report(prevCall).suggestions = Report(lastCall).suggestions
              /\ Report(prevCall).field_summary = Report(lastCall).field_summary

\* an invalid document with a suggestion, validated in strict mode and then
\* in non-strict mode: the summaries differ
C27_Witness ==
    /\ Returned(prevCall) /\ prevCall.strict
    /\ Returned(lastCall) /\ ~lastCall.strict
    /\ IsMappingText(text)
    /\ Report(lastCall).errors # <<>> /\ Report(lastCall).suggestions # <<>>
    /\ Report(prevCall).summary # Report(lastCall).summary

\* C28: for the spec parse_string returns and the mapping to_dict writes
\* for it, the spec _build_spec builds from that mapping equals the first
\* one in rune, signature, intent, the six list fields, complexity and the
\* meta fields name, language, version, tags, agent and mcp_server, and
\* to_dict writes the same mapping for it.
C28_FixedPoint ==
    (parsed.exc = "" /\ dumped.exc = "") =>
        \A rebuilt \in {_build_spec(dumped.ret)} :
            /\ rebuilt.rune = parsed.ret.rune
            /\ rebuilt.signature = parsed.ret.signature
            /\ rebuilt.intent = parsed.ret.intent
            /\ \A k \in LIST_FIELDS : ListField(rebuilt, k) = ListField(parsed.ret, k)
            /\ rebuilt.complexity = parsed.ret.complexity
            /\ rebuilt.meta.name = parsed.ret.meta.name
            /\ rebuilt.meta.language = parsed.ret.meta.language
            /\ rebuilt.meta.version = parsed.ret.meta.version
            /\ rebuilt.meta.tags = parsed.ret.meta.tags
            /\ rebuilt.meta.agent = parsed.ret.meta.agent
            /\ rebuilt.meta.mcp_server = parsed.ret.meta.mcp_server
            /\ to_dict(rebuilt) = dumped.ret

\* the spec of a document whose meta.version is the integer 2, written back
C28_Witness ==
    /\ parsed.exc = "" /\ dumped.exc = ""
    /\ IsMappingText(text)
    /\ Get(Get(Root(text), "meta", VDict(<<>>)), "version", VNone) = VInt(2)
    /\ parsed.ret.meta.version = <<"2">>
    /\ Item(Item(dumped.ret, "meta"), "version") = VStr(<<"2">>)

\* the five required scalar fields, by the name of their requirement
ScalarRequirements == {"name", "language", "rune", "signature", "intent"}

\* the key of the scalar requirement r is present in the document with a
\* null value
PresentButNull(data, r) ==
    CASE r = "name" ->
            /\ Get(data, "meta", VNone).t = "dict"
            /\ HasKey(Item(data, "meta"), "name")
            /\ Item(Item(data, "meta"), "name").t = "NoneType"
      [] r = "language" ->
            /\ Get(data, "meta", VNone).t = "dict"
            /\ HasKey(Item(data, "meta"), "language")
            /\ Item(Item(data, "meta"), "language").t = "NoneType"
      [] r = "rune" -> HasKey(data, "RUNE") /\ Item(data, "RUNE").t = "NoneType"
      [] r = "signature" ->
            HasKey(data, "SIGNATURE") /\ Item(data, "SIGNATURE").t = "NoneType"
      [] r = "intent" -> HasKey(data, "INTENT") /\ Item(data, "INTENT").t = "NoneType"

\* the field of a built spec that the scalar requirement r is about
ScalarField(spec, r) ==
    CASE r = "name" -> spec.meta.name
      [] r = "language" -> spec.meta.language
      [] r = "rune" -> spec.rune
      [] r = "signature" -> spec.signature
      [] r = "intent" -> spec.intent

\* the 'required' error of the scalar requirement r
RequiredError(r) ==
    CASE r = "name" -> Msg("meta.name is required", <<>>)
      [] r = "language" -> Msg("meta.language is required", <<>>)
      [] r = "rune" -> Msg("RUNE field is required", <<>>)
      [] r = "signature" -> Msg("SIGNATURE is required", <<>>)
      [] r = "intent" -> Msg("INTENT is required", <<>>)

\* C29 as stated: for a mapping in which meta.name, meta.language, RUNE,
\* SIGNATURE or INTENT is present with a null value, parse_string yields the
\* empty string for that field and RUNEParser.validate reports the
\* 'required' error of that field.
C29_NullLikeAbsent ==
    (parsed.exc = "" /\ IsMappingText(text)) =>
        \A r \in ScalarRequirements :
            PresentButNull(Root(text), r) =>
                /\ ScalarField(parsed.ret, r) = <<>>
                /\ verrs.exc = "" =>
                      \E i \in 1..Len(verrs.ret) : verrs.ret[i] = RequiredError(r)

\* every error of the structural tier is the unsupported-language error
OnlyLanguageErrors(errs) ==
    \A i \in 1..Len(errs) : errs[i].m = "Unsupported language: {language}"

\* C30 as stated: for a text that decodes to a mapping, if validate_spec
\* (strict=False) returns valid=true then RUNEParser.validate on the parsed
\* spec returns no error other than the unsupported-language error, and if
\* RUNEParser.validate returns no error then validate_spec returns
\* valid=true.
C30_TiersAgree ==
    (IsMappingText(text) /\ Called(lastCall) /\ ~lastCall.strict /\ verrs.exc = "") =>
        /\ (Returned(lastCall) /\ Report(lastCall).valid) => OnlyLanguageErrors(verrs.ret)
        /\ verrs.ret = <<>> => (Returned(lastCall) /\ Report(lastCall).valid)

\* the value is a string that is not empty
NonEmptyString(x) == x.t = "str" /\ x.s # <<>>

\* the value is a list without a null entry
ListWithoutNull(x) == x.t = "list" /\ \A i \in 1..Len(x.xs) : x.xs[i].t # "NoneType"

\* every value the document holds under a required key has the shape its
\* rule expects: meta a mapping, meta.name, meta.language and RUNE strings
\* that are not empty, SIGNATURE and INTENT strings, BEHAVIOR and TESTS
\* lists without a null entry
ExpectedShapes(data) ==
    /\ HasKey(data, "meta") =>
          /\ Item(data, "meta").t = "dict"
          /\ HasKey(Item(data, "meta"), "name") =>
                NonEmptyString(Item(Item(data, "meta"), "name"))
          /\ HasKey(Item(data, "meta"), "language") =>
                NonEmptyString(Item(Item(data, "meta"), "language"))
    /\ HasKey(data, "RUNE") => NonEmptyString(Item(data, "RUNE"))
    /\ HasKey(data, "SIGNATURE") => Item(data, "SIGNATURE").t = "str"
    /\ HasKey(data, "INTENT") => Item(data, "INTENT").t = "str"
    /\ HasKey(data, "BEHAVIOR") => ListWithoutNull(Item(data, "BEHAVIOR"))
    /\ HasKey(data, "TESTS") => ListWithoutNull(Item(data, "TESTS"))

\* C30 amended: for a text that decodes to a mapping whose values under the
\* required keys have the expected shapes, validate_spec (strict=False)
\* returns, and returns valid=true exactly when RUNEParser.validate on the
\* parsed spec returns no error other than the unsupported-language error.
C30_ShapedTiersAgree ==
    (IsMappingText(text) /\ Called(lastCall) /\ ~lastCall.strict /\ verrs.exc = ""
        /\ ExpectedShapes(Root(text))) =>
        /\ Returned(lastCall)
        /\ Report(lastCall).valid <=> OnlyLanguageErrors(verrs.ret)

\* a document with a blank SIGNATURE: an error on both tiers
C30_Witness ==
    /\ IsMappingText(text) /\ ExpectedShapes(Root(text))
    /\ Returned(lastCall) /\ ~lastCall.strict /\ verrs.exc = ""
    /\ Report(lastCall).errors = <<Msg("SIGNATURE must be a non-empty string", <<>>)>>
    /\ verrs.ret = <<Msg("SIGNATURE is required", <<>>)>>
====
